---- MODULE Spec2Model ----
(***************************************************************************)
(* Content generation handlers of the quiz backend: generateQuiz (Gemini,  *)
(* src/src/controllers/quiz.controller.js), generateQuiz (Llama via Groq,  *)
(* src/unnamed/part_007), generateFlashcards (round-robin over Gemini and   *)
(* Groq, src/src/controllers/flashcard.controller.js) and generateStudySet *)
(* (Gemini, src/src/controllers/study.controller.js); the challenge       *)
(* handlers of src/src/controllers/user.controller.js (sendChallenge,      *)
(* acceptChallenge, rejectChallenge, cancelChallenge); and the middleware  *)
(* authenticateToken (src/src/middleware/authMiddleware.js).               *)
(*                                                                         *)
(* Node runs each handler on one event loop: the code between two awaits   *)
(* runs without interleaving.  Each action below is one such segment.      *)
(*                                                                         *)
(* Text is a sequence of one-character strings, except that the interior   *)
(* of a JSON object is one atomic symbol (a body identifier, see Body).    *)
(***************************************************************************)
EXTENDS Integers, Sequences, FiniteSets, TLC

(* ------------------------------------------------------------------ *)
(* Bounds of the model                                                  *)
(* ------------------------------------------------------------------ *)

\* Number of overlapping requests in one behaviour of SpecConcurrent.
MaxRequests == 3

\* Largest value of the rotation counter when the request of Spec arrives.
MaxCounter == 3

\* Largest number of items in a provider payload.
MaxItems == 11

(* ------------------------------------------------------------------ *)
(* JavaScript values                                                    *)
(* ------------------------------------------------------------------ *)

Undef == [t |-> "undef", v |-> <<>>]

Null == [t |-> "null", v |-> <<>>]

NaN == [t |-> "nan", v |-> 0]

Str(cs) == [t |-> "str", v |-> cs]

Num(n) == [t |-> "num", v |-> n]

\* The number n + 1/2 (a number that is no integer).
Frac(n) == [t |-> "frac", v |-> n]

Arr(xs) == [t |-> "arr", v |-> xs]

Obj(fields) == [t |-> "obj", v |-> fields]

\* JavaScript truthiness (the ! operator and the left operand of ||, &&).
Truthy(x) ==
    CASE x.t = "undef" -> FALSE
      [] x.t = "null" -> FALSE
      [] x.t = "nan" -> FALSE
      [] x.t = "str" -> Len(x.v) > 0
      [] x.t = "num" -> x.v # 0
      [] OTHER -> TRUE

SetMin(S) == CHOOSE x \in S : \A y \in S : x <= y

SetMax(S) == CHOOSE x \in S : \A y \in S : x >= y

MathMin(a, b) == IF a <= b THEN a ELSE b

MathMax(a, b) == IF a >= b THEN a ELSE b

(* ------------------------------------------------------------------ *)
(* Strings                                                              *)
(* ------------------------------------------------------------------ *)

WhiteSpace == {" ", "\t", "\n", "\r"}

UpperCase ==
    <<"A", "B", "C", "D", "E", "F", "G", "H", "I", "J", "K", "L", "M",
      "N", "O", "P", "Q", "R", "S", "T", "U", "V", "W", "X", "Y", "Z">>

LowerCase ==
    <<"a", "b", "c", "d", "e", "f", "g", "h", "i", "j", "k", "l", "m",
      "n", "o", "p", "q", "r", "s", "t", "u", "v", "w", "x", "y", "z">>

Digits == <<"0", "1", "2", "3", "4", "5", "6", "7", "8", "9">>

\* String.prototype.trim
trim(s) ==
    LET keep == {i \in 1..Len(s) : s[i] \notin WhiteSpace}
    IN  IF keep = {} THEN <<>> ELSE SubSeq(s, SetMin(keep), SetMax(keep))

toLowerCaseChar(c) ==
    IF \E i \in 1..Len(UpperCase) : UpperCase[i] = c
    THEN LowerCase[CHOOSE i \in 1..Len(UpperCase) : UpperCase[i] = c]
    ELSE c

\* String.prototype.toLowerCase
toLowerCase(s) == [i \in 1..Len(s) |-> toLowerCaseChar(s[i])]

\* String.prototype.includes
includes(s, sub) ==
    \E i \in 0..(Len(s) - Len(sub)) : SubSeq(s, i + 1, i + Len(sub)) = sub

\* String.prototype.startsWith
startsWith(s, pre) == Len(s) >= Len(pre) /\ SubSeq(s, 1, Len(pre)) = pre

\* String.prototype.endsWith
endsWith(s, suf) ==
    Len(s) >= Len(suf) /\ SubSeq(s, Len(s) - Len(suf) + 1, Len(s)) = suf

\* String.prototype.indexOf(c), 0-based, -1 when absent
indexOf(s, c) ==
    LET at == {i \in 1..Len(s) : s[i] = c}
    IN  IF at = {} THEN -1 ELSE SetMin(at) - 1

\* String.prototype.lastIndexOf(c), 0-based, -1 when absent
lastIndexOf(s, c) ==
    LET at == {i \in 1..Len(s) : s[i] = c}
    IN  IF at = {} THEN -1 ELSE SetMax(at) - 1

\* String.prototype.substring(from, to), 0-based, end exclusive
substring(s, from, to) == SubSeq(s, from + 1, to)

(* ------------------------------------------------------------------ *)
(* parseInt and the clamp of the item count                             *)
(* ------------------------------------------------------------------ *)

DigitValue(c) == (CHOOSE i \in 1..Len(Digits) : Digits[i] = c) - 1

IsDigit(c) == \E i \in 1..Len(Digits) : Digits[i] = c

RECURSIVE DigitsValue(_, _)
\* Value of the longest prefix of digits of s, given the value acc read so far.
DigitsValue(s, acc) ==
    IF s = <<>> \/ ~IsDigit(Head(s)) THEN acc
    ELSE DigitsValue(Tail(s), 10 * acc + DigitValue(Head(s)))

RECURSIVE SkipWhiteSpace(_)
SkipWhiteSpace(s) ==
    IF s # <<>> /\ Head(s) \in WhiteSpace THEN SkipWhiteSpace(Tail(s)) ELSE s

\* parseInt(x, 10): a number is first turned into its decimal numeral, which for
\* the integers of the model reads back as itself; a string is read after leading
\* white space as an optional sign and its longest prefix of digits; everything
\* else, and a string with no leading digit, is NaN.
parseInt(x) ==
    CASE x.t = "num" -> x
      [] x.t = "str" ->
            LET s == SkipWhiteSpace(x.v)
                neg == s # <<>> /\ Head(s) = "-"
                body == IF s # <<>> /\ Head(s) \in {"-", "+"} THEN Tail(s) ELSE s
            IN  IF body = <<>> \/ ~IsDigit(Head(body)) THEN NaN
                ELSE Num(IF neg THEN 0 - DigitsValue(body, 0) ELSE DigitsValue(body, 0))
      [] OTHER -> NaN

\* A destructuring default: { questionCount = 15 } = req.body
DefaultParam(x, d) == IF x.t = "undef" THEN Num(d) ELSE x

\* parseInt(x, 10) || d
OrDefault(p, d) == IF Truthy(p) THEN p.v ELSE d

QuizDefault == 15

QuizMin == 10

QuizMax == 50

FlashDefault == 10

FlashMin == 5

FlashMax == 30

validQuestionCount(questionCount) ==
    MathMin(MathMax(OrDefault(parseInt(DefaultParam(questionCount, QuizDefault)), QuizDefault),
                    QuizMin), QuizMax)

validCardCount(cardCount) ==
    MathMin(MathMax(OrDefault(parseInt(DefaultParam(cardCount, FlashDefault)), FlashDefault),
                    FlashMin), FlashMax)

(* ------------------------------------------------------------------ *)
(* Error messages and the phrases the catch blocks look for             *)
(* ------------------------------------------------------------------ *)

\* getGeminiModel: new Error('GEMINI_API_KEY is missing'): "GEMINI_API_KEY is missing"
MsgGeminiKeyMissing ==
    <<"G", "E", "M", "I", "N", "I", "_", "A", "P", "I", "_", "K", "E", "Y",
      " ", "i", "s", " ", "m", "i", "s", "s", "i", "n", "g">>

\* getGroqClient: new Error('GROQ_API_KEY is missing'): "GROQ_API_KEY is missing"
MsgGroqKeyMissing ==
    <<"G", "R", "O", "Q", "_", "A", "P", "I", "_", "K", "E", "Y", " ", "i",
      "s", " ", "m", "i", "s", "s", "i", "n", "g">>

\* generateFlashcards: thrown when no card survives validation: "No valid flashcards parsed from AI response"
MsgNoValidFlashcards ==
    <<"N", "o", " ", "v", "a", "l", "i", "d", " ", "f", "l", "a", "s", "h",
      "c", "a", "r", "d", "s", " ", "p", "a", "r", "s", "e", "d", " ", "f",
      "r", "o", "m", " ", "A", "I", " ", "r", "e", "s", "p", "o", "n", "s",
      "e">>

\* phrase looked for by the catch blocks: "api key"
PhraseApiKeyLower ==
    <<"a", "p", "i", " ", "k", "e", "y">>

\* phrase looked for by the catch blocks: "API key"
PhraseApiKey ==
    <<"A", "P", "I", " ", "k", "e", "y">>

\* phrase looked for by the catch blocks: "unauthorized"
PhraseUnauthorized ==
    <<"u", "n", "a", "u", "t", "h", "o", "r", "i", "z", "e", "d">>

\* phrase looked for by the catch blocks: "quota"
PhraseQuota ==
    <<"q", "u", "o", "t", "a">>

\* phrase looked for by the catch blocks: "too many requests"
PhraseTooManyRequests ==
    <<"t", "o", "o", " ", "m", "a", "n", "y", " ", "r", "e", "q", "u", "e",
      "s", "t", "s">>

\* a provider error message: "quota exceeded"
MsgQuotaLower ==
    <<"q", "u", "o", "t", "a", " ", "e", "x", "c", "e", "e", "d", "e", "d">>

\* a provider error message: "Quota exceeded"
MsgQuotaCapital ==
    <<"Q", "u", "o", "t", "a", " ", "e", "x", "c", "e", "e", "d", "e", "d">>

\* a provider error message: "API key not valid"
MsgApiKeyInvalid ==
    <<"A", "P", "I", " ", "k", "e", "y", " ", "n", "o", "t", " ", "v", "a",
      "l", "i", "d">>

\* a provider error message: "Invalid API Key"
MsgApiKeyCapital ==
    <<"I", "n", "v", "a", "l", "i", "d", " ", "A", "P", "I", " ", "K", "e",
      "y">>

\* a provider error message: "Unauthorized"
MsgUnauthorized ==
    <<"U", "n", "a", "u", "t", "h", "o", "r", "i", "z", "e", "d">>

\* a provider error message: "Too Many Requests"
MsgTooManyRequests ==
    <<"T", "o", "o", " ", "M", "a", "n", "y", " ", "R", "e", "q", "u", "e",
      "s", "t", "s">>

\* a provider error message naming both the key and the quota: "API key quota exceeded"
MsgApiKeyQuota ==
    <<"A", "P", "I", " ", "k", "e", "y", " ", "q", "u", "o", "t", "a", " ",
      "e", "x", "c", "e", "e", "d", "e", "d">>

\* a provider error message: "fetch failed"
MsgFetchFailed ==
    <<"f", "e", "t", "c", "h", " ", "f", "a", "i", "l", "e", "d">>

\* message of the TypeError raised by a property read on null or undefined: "Cannot read properties"
MsgTypeError ==
    <<"C", "a", "n", "n", "o", "t", " ", "r", "e", "a", "d", " ", "p", "r",
      "o", "p", "e", "r", "t", "i", "e", "s">>

\* message of the TypeError raised by a call of a missing method: "is not a function"
MsgNotAFunction ==
    <<"i", "s", " ", "n", "o", "t", " ", "a", " ", "f", "u", "n", "c", "t", "i", "o", "n">>

\* message of the SyntaxError raised by JSON.parse: "Unexpected token"
MsgSyntaxError ==
    <<"U", "n", "e", "x", "p", "e", "c", "t", "e", "d", " ", "t", "o", "k", "e", "n">>

(* ------------------------------------------------------------------ *)
(* Responses and the catch blocks                                       *)
(* ------------------------------------------------------------------ *)

\* res.status(status).json({ error })
Failure(status, error) == [status |-> status, error |-> error, count |-> 0]

\* res.status(201).json({ ..., questionCount | cardCount: count, ... })
Created(count) == [status |-> 201, error |-> "", count |-> count]

TopicRequired == Failure(400, "Topic is required")

\* errorHandler (part_000): the response to an error passed to next(err).
errorHandler == Failure(500, "Something went wrong!")

\* error.message?.includes(phrase): undefined when the error has no message
messageIncludes(message, phrase) == message.t = "str" /\ includes(message.v, phrase)

\* Mutant of catchGenerateQuiz: a quota error is reported as a generic failure.
catchGenerateQuizMutant(message) ==
    IF messageIncludes(message, PhraseApiKey)
    THEN Failure(500, "API configuration error. Please contact support.")
    ELSE Failure(500, "Failed to generate quiz. Please try again.")

\* The catch block of generateQuiz (Gemini), applied to the message of the error.
catchGenerateQuiz(message) ==
    IF messageIncludes(message, PhraseApiKey)
    THEN Failure(500, "API configuration error. Please contact support.")
    ELSE IF messageIncludes(message, PhraseQuota)
    THEN Failure(429, "Service temporarily unavailable. Please try again later.")
    ELSE Failure(500, "Failed to generate quiz. Please try again.")

\* The catch block of generateQuiz (Llama via Groq).
catchGenerateQuizGroq(message) ==
    IF messageIncludes(message, PhraseApiKey) \/ messageIncludes(message, PhraseApiKeyLower)
    THEN Failure(500, "API configuration error. Please contact support.")
    ELSE IF messageIncludes(message, PhraseQuota)
    THEN Failure(429, "Service temporarily unavailable. Please try again later.")
    ELSE Failure(500, "Failed to generate quiz. Please try again.")

\* The catch block of generateFlashcards, on error.message?.toLowerCase() || "".
catchGenerateFlashcards(message) ==
    LET msg == IF message.t = "str" THEN toLowerCase(message.v) ELSE <<>>
    IN  IF includes(msg, PhraseApiKeyLower) \/ includes(msg, PhraseUnauthorized)
        THEN Failure(500, "Server Configuration Error (API Key).")
        ELSE IF includes(msg, PhraseQuota) \/ includes(msg, PhraseTooManyRequests)
        THEN Failure(429, "System busy. Please try again.")
        ELSE Failure(500, "Failed to generate flashcards.")

QuizParseFailure == Failure(500, "Failed to generate valid quiz questions. Please try again.")

QuizNoValidQuestions == Failure(500, "No valid questions could be generated. Please try again.")

\* Mutant of FlashcardParseFailure: a parse error is reported as the generic failure.
FlashcardParseFailureMutant == Failure(500, "Failed to generate flashcards.")

FlashcardParseFailure == Failure(500, "AI generation failed (Parsing Error). Please try again.")

(* ------------------------------------------------------------------ *)
(* Cleaning and parsing of the provider's text                          *)
(* ------------------------------------------------------------------ *)

\* The backtick character (written as a name: the character itself cannot appear
\* in a string of the module).
Backtick == "BACKTICK"

Fence == <<Backtick, Backtick, Backtick>>

FenceJson == Fence \o <<"j", "s", "o", "n">>

\* replace of a leading fence tagged json and of one newline after it
replaceLeadingJsonFence(s) ==
    IF ~startsWith(s, FenceJson) THEN s
    ELSE LET rest == SubSeq(s, Len(FenceJson) + 1, Len(s))
         IN  IF rest # <<>> /\ Head(rest) = "\n" THEN Tail(rest) ELSE rest

\* replace of a leading fence and of one newline after it
replaceLeadingFence(s) ==
    IF ~startsWith(s, Fence) THEN s
    ELSE LET rest == SubSeq(s, Len(Fence) + 1, Len(s))
         IN  IF rest # <<>> /\ Head(rest) = "\n" THEN Tail(rest) ELSE rest

\* Mutant of replaceTrailingFence: the trailing fence is left in place.
replaceTrailingFenceMutant(s) == s

\* replace of a trailing fence and of one newline before it
replaceTrailingFence(s) ==
    IF ~endsWith(s, Fence) THEN s
    ELSE LET rest == SubSeq(s, 1, Len(s) - Len(Fence))
         IN  IF rest # <<>> /\ rest[Len(rest)] = "\n"
             THEN SubSeq(rest, 1, Len(rest) - 1) ELSE rest

\* (text || "") for the extracted text, which is a string or undefined
textOrEmpty(text) == IF Truthy(text) THEN text.v ELSE <<>>

\* parseFlashcardJSON, lines 98-99: the cleaned text
cleanFlashcardText(text) ==
    trim(replaceTrailingFence(replaceLeadingFence(replaceLeadingJsonFence(
        trim(textOrEmpty(text))))))

\* generateQuiz, lines 85-98 (part_007: 200-213): the cleaned text
cleanQuizText(text) ==
    LET t0 == trim(textOrEmpty(text))
        t1 == IF startsWith(t0, FenceJson) THEN replaceLeadingJsonFence(t0) ELSE t0
        t2 == IF startsWith(t1, Fence) THEN replaceLeadingFence(t1) ELSE t1
        t3 == IF endsWith(t2, Fence) THEN replaceTrailingFence(t2) ELSE t2
    IN  trim(t3)

ParseError == [ok |-> FALSE, val |-> Undef]

Parsed(val) == [ok |-> TRUE, val |-> val]

(* ------------------------------------------------------------------ *)
(* Payloads                                                             *)
(* ------------------------------------------------------------------ *)

Question(questionText, options, correctAnswer) ==
    Obj([questionText |-> questionText, options |-> options,
         correctAnswer |-> correctAnswer])

Card(front, back) == Obj([front |-> front, back |-> back])

FourOptions == Arr(<<Str(<<"A">>), Str(<<"B">>), Str(<<" ", "C">>), Str(<<"D">>)>>)

ThreeOptions == Arr(<<Str(<<"A">>), Str(<<"B">>), Str(<<"C">>)>>)

\* A question with a numeric answer index.
QuestionByIndex == Question(Str(<<"Q", "1">>), FourOptions, Num(2))

\* A question whose answer is given as the text of an option.
QuestionByText == Question(Str(<<" ", "Q", "2">>), FourOptions, Str(<<"B">>))

\* A question with three options: rejected by validation.
QuestionThreeOptions == Question(Str(<<"Q", "3">>), ThreeOptions, Num(0))

\* A question whose answer index is out of range: rejected by validation.
QuestionOutOfRange == Question(Str(<<"Q", "4">>), FourOptions, Num(4))

\* A question whose answer index is a number that is no integer.
QuestionFraction == Question(Str(<<"Q", "5">>), FourOptions, Frac(1))

\* A question whose text and second option are white space and whose third
\* option is null.
QuestionBlank ==
    Question(Str(<<" ">>), Arr(<<Str(<<"A">>), Str(<<" ">>), Null, Str(<<"D">>)>>), Num(0))

GoodCard == Card(Str(<<"F", "1">>), Str(<<"B", "1", " ">>))

NumberCard == Card(Num(7), Str(<<"B", "2">>))

\* A card with an empty front: rejected by validation.
EmptyFrontCard == Card(Str(<<>>), Str(<<"B", "3">>))

\* A card without a back: rejected by validation.
NoBackCard == Card(Str(<<"F", "4">>), Undef)

\* A card whose front and back are white space.
BlankCard == Card(Str(<<" ">>), Str(<<"\t", " ">>))

Repeat(x, n) == [i \in 1..n |-> x]

\* The object a body identifier stands for: what JSON.parse returns for the text
\* of the braces around it.  A field the object lacks reads as undefined.
Body(id) ==
    CASE id = "qEmpty" -> Obj([questions |-> Arr(<<>>), cards |-> Undef])
      [] id = "qNotArray" -> Obj([questions |-> Str(<<"x">>), cards |-> Undef])
      [] id = "qBad" ->
            Obj([questions |-> Arr(<<QuestionThreeOptions, QuestionOutOfRange>>),
                 cards |-> Undef])
      [] id = "qMixed" ->
            Obj([questions |-> Arr(<<QuestionByIndex, QuestionThreeOptions, QuestionByText>>),
                 cards |-> Undef])
      [] id = "qMany" ->
            Obj([questions |-> Arr(Repeat(QuestionByIndex, MaxItems)), cards |-> Undef])
      [] id = "qLoose" ->
            Obj([questions |-> Arr(<<Null, QuestionFraction, QuestionBlank, QuestionByIndex>>),
                 cards |-> Undef])
      [] id = "cLoose" -> Obj([questions |-> Undef, cards |-> Arr(<<GoodCard, BlankCard>>)])
      [] id = "cNull" -> Obj([questions |-> Undef, cards |-> Arr(<<GoodCard, Null>>)])
      [] id = "sGood" ->
            Obj([questions |-> Undef, cards |-> Undef,
                 flashcards |-> Arr(<<GoodCard>>),
                 quiz |-> Arr(<<QuestionByIndex>>)])
      [] id = "sLoose" ->
            Obj([questions |-> Undef, cards |-> Undef,
                 flashcards |-> Arr(<<GoodCard, BlankCard, Null>>),
                 quiz |-> Arr(<<QuestionByIndex, QuestionOutOfRange, QuestionThreeOptions>>)])
      [] id = "cEmpty" -> Obj([questions |-> Undef, cards |-> Arr(<<>>)])
      [] id = "cNotArray" -> Obj([questions |-> Undef, cards |-> Str(<<"x">>)])
      [] id = "cBad" ->
            Obj([questions |-> Undef, cards |-> Arr(<<EmptyFrontCard, NoBackCard>>)])
      [] id = "cMixed" ->
            Obj([questions |-> Undef,
                 cards |-> Arr(<<GoodCard, EmptyFrontCard, NumberCard>>)])
      [] id = "cMany" ->
            Obj([questions |-> Undef, cards |-> Arr(Repeat(GoodCard, MaxItems))])
      [] OTHER -> Obj([questions |-> Undef, cards |-> Undef])

QuizBodyIds == {"other", "qEmpty", "qNotArray", "qBad", "qMixed", "qMany", "qLoose"}

FlashcardBodyIds ==
    {"other", "cEmpty", "cNotArray", "cBad", "cMixed", "cMany", "cLoose", "cNull"}

StudyBodyIds == {"other", "sGood", "sLoose"}

BodyIds == QuizBodyIds \cup FlashcardBodyIds \cup StudyBodyIds

\* Property reads on a parsed value; undefined for a value that is no such object.
Field(x, name) ==
    IF x.t # "obj" THEN Undef
    ELSE CASE name = "questions" -> x.v.questions
           [] name = "cards" -> x.v.cards
           [] name = "questionText" -> x.v.questionText
           [] name = "options" -> x.v.options
           [] name = "correctAnswer" -> x.v.correctAnswer
           [] name = "front" -> x.v.front
           [] name = "back" -> x.v.back

NotWhiteSpace(c) == c \notin WhiteSpace

\* JSON.parse: white space between the tokens is skipped; the texts that parse
\* are an object around a body, the empty object and the literal null.
JSONparse(s) ==
    LET tokens == SelectSeq(s, NotWhiteSpace)
    IN  IF Len(tokens) = 3 /\ tokens[1] = "{" /\ tokens[3] = "}" /\ tokens[2] \in BodyIds
        THEN Parsed(Body(tokens[2]))
        ELSE IF tokens = <<"{", "}">> THEN Parsed(Body("other"))
        ELSE IF trim(s) = <<"n", "u", "l", "l">> THEN Parsed(Null)
        ELSE ParseError

\* Mutant of parseWithBraceFallback: the fallback ends at the first "}".
parseWithBraceFallbackMutant(cleanedText) ==
    LET direct == JSONparse(cleanedText)
        firstBrace == indexOf(cleanedText, "{")
        lastBrace == indexOf(cleanedText, "}")
    IN  IF direct.ok THEN direct
        ELSE IF firstBrace # -1 /\ lastBrace # -1 /\ lastBrace > firstBrace
        THEN JSONparse(substring(cleanedText, firstBrace, lastBrace + 1))
        ELSE ParseError

\* Direct parse and, when it fails, the parse of the text from the first "{"
\* through the last "}" (quiz.controller.js 102-114, part_007 216-227,
\* flashcard.controller.js 101-110).
parseWithBraceFallback(cleanedText) ==
    LET direct == JSONparse(cleanedText)
        firstBrace == indexOf(cleanedText, "{")
        lastBrace == lastIndexOf(cleanedText, "}")
    IN  IF direct.ok THEN direct
        ELSE IF firstBrace # -1 /\ lastBrace # -1 /\ lastBrace > firstBrace
        THEN JSONparse(substring(cleanedText, firstBrace, lastBrace + 1))
        ELSE ParseError

parseFlashcardJSON(text) == parseWithBraceFallback(cleanFlashcardText(text))

parseQuizJSON(text) == parseWithBraceFallback(cleanQuizText(text))

(* ------------------------------------------------------------------ *)
(* Extraction of the text from a provider result                        *)
(* ------------------------------------------------------------------ *)

\* The shapes of a provider result:
\*   responseText        { response: { text() } }, text() returns .text
\*   responseTextThrows  { response: { text() } }, text() throws
\*   choicesContent      { choices: [{ message: { content: .text } }] }
\*   emptyObject         {} (no response, no choices)
\*   nullResult          null
Result(shape, text) == [shape |-> shape, text |-> text]

\* JSON.stringify of a result: functions are left out, so a result that has a
\* response serializes to an object around it, an empty object to "{}" and
\* null to "null".
JSONstringify(result) ==
    IF result.shape = "emptyObject" THEN Str(<<"{", "}">>)
    ELSE IF result.shape = "nullResult" THEN Str(<<"n", "u", "l", "l">>)
    ELSE Str(<<"{", "other", "}">>)

\* The try block of extractTextFromResult throws: response.text() throws, or
\* (flashcard.controller.js 88) result.choices is read on null.
extractionThrows(fn, provider, result) ==
    CASE fn = "extractTextFromResult_quiz" -> result.shape = "responseTextThrows"
      [] fn = "extractTextFromResult_groq" -> FALSE
      [] OTHER -> \/ provider = "GEMINI" /\ result.shape = "responseTextThrows"
                  \/ provider = "GROQ" /\ result.shape = "nullResult"

\* extractTextFromResult of quiz.controller.js (22-52)
extractTextFromResult_quiz(result) ==
    CASE result.shape = "responseText" -> result.text
      [] result.shape = "responseTextThrows" -> JSONstringify(result)
      [] OTHER -> JSONstringify(result)

\* extractTextFromResult of part_007 (23-55)
extractTextFromResult_groq(result) ==
    CASE result.shape = "nullResult" -> Str(<<>>)
      [] result.shape = "choicesContent" /\ result.text.t = "str" -> result.text
      [] OTHER -> JSONstringify(result)

\* extractTextFromResult of flashcard.controller.js (80-95)
extractTextFromResult_flashcard(result, provider) ==
    IF provider = "GEMINI"
    THEN CASE result.shape = "responseText" -> result.text
           [] result.shape = "responseTextThrows" -> Str(<<>>)
           [] OTHER -> JSONstringify(result)
    ELSE IF provider = "GROQ"
    THEN IF result.shape = "choicesContent" /\ Truthy(result.text)
         THEN result.text ELSE Str(<<>>)
    ELSE Str(<<>>)

(* ------------------------------------------------------------------ *)
(* Validation of the items                                              *)
(* ------------------------------------------------------------------ *)

RECURSIVE Numeral(_)
\* The decimal numeral of a natural number.
Numeral(n) ==
    IF n < 10 THEN <<Digits[n + 1]>>
    ELSE Numeral(n \div 10) \o <<Digits[(n % 10) + 1]>>

\* String(x)
String(x) ==
    CASE x.t = "str" -> x.v
      [] x.t = "num" -> IF x.v < 0 THEN <<"-">> \o Numeral(0 - x.v) ELSE Numeral(x.v)
      [] x.t = "frac" ->
            (IF x.v < 0 THEN <<"-">> \o Numeral(0 - x.v - 1) ELSE Numeral(x.v)) \o <<".", "5">>
      [] x.t = "null" -> <<"n", "u", "l", "l">>
      [] x.t = "undef" -> <<"u", "n", "d", "e", "f", "i", "n", "e", "d">>
      [] x.t = "nan" -> <<"N", "a", "N">>
      [] OTHER -> <<"[", "o", "b", "j", "e", "c", "t", "]">>

\* typeof x
typeof(x) ==
    CASE x.t = "str" -> "string"
      [] x.t \in {"num", "frac", "nan"} -> "number"
      [] x.t = "undef" -> "undefined"
      [] OTHER -> "object"

\* Array.prototype.indexOf (strict equality), 0-based, -1 when absent
arrayIndexOf(xs, x) ==
    LET at == {i \in 1..Len(xs) : xs[i] = x}
    IN  IF at = {} THEN -1 ELSE SetMin(at) - 1

\* x < k and x > k for a number x and an integer k (false for NaN)
lessThan(x, k) ==
    CASE x.t = "num" -> x.v < k
      [] x.t = "frac" -> x.v < k
      [] OTHER -> FALSE

greaterThan(x, k) ==
    CASE x.t = "num" -> x.v > k
      [] x.t = "frac" -> x.v >= k
      [] OTHER -> FALSE

Invalid == [ok |-> FALSE, item |-> <<>>]

\* correctAnswerIndex with the trimmed comparison tried before the exact one.
correctAnswerIndexMutant(q) ==
    LET correctAnswer == Field(q, "correctAnswer")
        options == Field(q, "options").v
        trimmedMatch ==
            arrayIndexOf([i \in 1..Len(options) |-> Str(trim(String(options[i])))],
                         Str(trim(correctAnswer.v)))
    IN  IF typeof(correctAnswer) = "number" THEN [ok |-> TRUE, index |-> correctAnswer]
        ELSE IF typeof(correctAnswer) = "string" /\ trimmedMatch # -1
        THEN [ok |-> TRUE, index |-> Num(trimmedMatch)]
        ELSE [ok |-> FALSE, index |-> Num(-1)]

\* The answer index of a question whose text and options passed (155-172): a
\* number is taken as it is, a string is looked up among the options.
correctAnswerIndex(q) ==
    LET correctAnswer == Field(q, "correctAnswer")
        options == Field(q, "options").v
        exact == arrayIndexOf(options, correctAnswer)
        trimmedMatch ==
            arrayIndexOf([i \in 1..Len(options) |-> Str(trim(String(options[i])))],
                         Str(trim(correctAnswer.v)))
    IN  IF typeof(correctAnswer) = "number" THEN [ok |-> TRUE, index |-> correctAnswer]
        ELSE IF typeof(correctAnswer) = "string"
        THEN IF exact # -1 THEN [ok |-> TRUE, index |-> Num(exact)]
             ELSE IF trimmedMatch = -1 THEN [ok |-> FALSE, index |-> Num(-1)]
             ELSE [ok |-> TRUE, index |-> Num(trimmedMatch)]
        ELSE [ok |-> FALSE, index |-> Num(-1)]

\* The body of the validation loop of generateQuiz (141-187, part_007 250-289):
\* the question pushed, or Invalid when the body throws and the question is skipped.
validateQuestion(q) ==
    IF ~Truthy(q) \/ typeof(q) # "object" THEN Invalid
    ELSE IF ~Truthy(Field(q, "questionText")) \/ typeof(Field(q, "questionText")) # "string"
    THEN Invalid
    ELSE IF ~Truthy(Field(q, "options")) \/ Field(q, "options").t # "arr"
            \/ Len(Field(q, "options").v) # 4
    THEN Invalid
    ELSE LET answer == correctAnswerIndex(q)
             options == Field(q, "options").v
         IN  IF ~answer.ok THEN Invalid
             ELSE IF lessThan(answer.index, 0) \/ greaterThan(answer.index, 3) THEN Invalid
             ELSE [ok |-> TRUE,
                   item |-> [questionText |-> trim(Field(q, "questionText").v),
                             options |-> [i \in 1..Len(options) |-> trim(String(options[i]))],
                             correctAnswer |-> answer.index]]

RECURSIVE validatedQuestions(_)
\* The validation loop of generateQuiz: the questions pushed, in order.
validatedQuestions(questions) ==
    IF questions = <<>> THEN <<>>
    ELSE LET first == validateQuestion(Head(questions))
         IN  (IF first.ok THEN <<first.item>> ELSE <<>>)
                 \o validatedQuestions(Tail(questions))

\* card.front && card.back throws a TypeError on a null or undefined card.
cardFilterThrows(cards) == \E i \in 1..Len(cards) : cards[i].t \in {"null", "undef"}

cardFilter(card) == Truthy(Field(card, "front")) /\ Truthy(Field(card, "back"))

\* Mutant of validatedCards: a card is numbered by its position in the payload.
validatedCardsMutant(cards) ==
    LET at == {k \in 1..Len(cards) : cardFilter(cards[k])}
        kept == SelectSeq(cards, cardFilter)
    IN  [index \in 1..Len(kept) |->
            [front |-> trim(String(Field(kept[index], "front"))),
             back |-> trim(String(Field(kept[index], "back"))),
             cardNumber |->
                 CHOOSE k \in at : Cardinality({j \in at : j <= k}) = index]]

\* generateFlashcards 170-176: filter, then map with cardNumber = index + 1.
validatedCards(cards) ==
    LET kept == SelectSeq(cards, cardFilter)
    IN  [index \in 1..Len(kept) |->
            [front |-> trim(String(Field(kept[index], "front"))),
             back |-> trim(String(Field(kept[index], "back"))),
             cardNumber |-> index]]

\* prisma.quiz.create: the questions as stored, questionNumber = index + 1.
createdQuestions(validated) ==
    [index \in 1..Len(validated) |->
        [questionText |-> validated[index].questionText,
         options |-> validated[index].options,
         correctAnswer |-> validated[index].correctAnswer,
         questionNumber |-> index]]

\* prisma.flashcardSet.create: the cards as stored.
createdCards(validated) ==
    [index \in 1..Len(validated) |->
        [front |-> validated[index].front,
         back |-> validated[index].back,
         cardNumber |-> validated[index].cardNumber]]

(* ------------------------------------------------------------------ *)
(* State                                                                *)
(* ------------------------------------------------------------------ *)

VARIABLES
    env,             \* process.env: which provider keys are set
    requestCounter,  \* flashcard.controller.js: let requestCounter = 0
    geminiModel,     \* flashcard.controller.js: the cached Gemini model, if built
    groqClient,      \* flashcard.controller.js: the cached Groq client, if built
    groq,            \* part_007: the cached Groq client, if built
    studyModel,      \* study.controller.js: the cached Gemini model, if built
    requests,        \* the handler invocations, in order of arrival
    db,              \* the quizzes and flashcard sets created through prisma
    probe,           \* a function of the code applied to one argument
    challenges,      \* the rows of the Challenge table; the id of a row is its position
    clock,           \* new Date(), in hours
    challengeCalls   \* the invocations of the challenge handlers, in order of arrival

vars ==
    <<env, requestCounter, geminiModel, groqClient, groq, studyModel, requests, db, probe,
      challenges, clock, challengeCalls>>

\* The state of the challenge handlers, which the other handlers leave alone.
challengeVars == <<challenges, clock, challengeCalls>>

\* The state the challenge handlers leave alone.
generationVars ==
    <<env, requestCounter, geminiModel, groqClient, groq, studyModel, requests, db, probe>>

\* No challenge was sent and no challenge handler called.
NoChallenges ==
    /\ challenges = <<>>
    /\ clock = 0
    /\ challengeCalls = <<>>

\* req.body.topic
Topics == {Undef, Str(<<>>), Str(<<" ", "\t">>), Str(<<" ", "a">>), Num(5)}

\* req.body.questionCount, req.body.cardCount
Counts == {Undef, Num(0), Num(1), Num(1000), Str(<<"7">>), Str(<<"x">>)}

\* Messages of the errors a provider call may reject with; Undef: no message.
ProviderErrors ==
    {Str(MsgQuotaLower), Str(MsgQuotaCapital), Str(MsgApiKeyInvalid),
     Str(MsgApiKeyCapital), Str(MsgUnauthorized), Str(MsgTooManyRequests),
     Str(MsgApiKeyQuota), Str(MsgFetchFailed), Undef}

\* Message of the error a failed prisma create rejects with.
CreateErrors == {Str(MsgFetchFailed)}

Braces(id) == <<"{", id, "}">>

Fenced(s) == FenceJson \o <<"\n">> \o s \o <<"\n">> \o Fence

InProse(s) == <<"x", " ">> \o s \o <<" ", "x">>

\* The texts a provider may answer with for a handler's collection of bodies.
Texts(ids, sample) ==
    {<<>>, <<"x">>, <<"n", "u", "l", "l">>, <<"{", sample>>,
     Fenced(Braces(sample)), InProse(Braces(sample))}
        \cup {Braces(id) : id \in ids}

GeminiResults(ids, sample) ==
    {Result("responseText", Str(t)) : t \in Texts(ids, sample)}
        \cup {Result("responseTextThrows", Undef), Result("emptyObject", Undef)}

GroqResults(ids, sample) ==
    {Result("choicesContent", Str(t)) : t \in Texts(ids, sample)}
        \cup {Result("choicesContent", Undef), Result("emptyObject", Undef)}

Rejected(message) == [ok |-> FALSE, message |-> message, result |-> Result("emptyObject", Undef)]

Resolved(result) == [ok |-> TRUE, message |-> Undef, result |-> result]

Outcomes(results) ==
    {Rejected(m) : m \in ProviderErrors} \cup {Resolved(x) : x \in results}

QuizGeminiOutcomes == Outcomes(GeminiResults(QuizBodyIds, "qMixed"))

QuizGroqOutcomes == Outcomes(GroqResults(QuizBodyIds, "qMixed"))

FlashcardGeminiOutcomes == Outcomes(GeminiResults(FlashcardBodyIds, "cMixed"))

FlashcardGroqOutcomes == Outcomes(GroqResults(FlashcardBodyIds, "cMixed"))

\* What the awaited provider call of a request may settle with.
ProviderOutcomes(handler, provider) ==
    CASE handler = "generateQuiz" -> QuizGeminiOutcomes
      [] handler = "generateQuizGroq" -> QuizGroqOutcomes
      [] provider = "GEMINI" -> FlashcardGeminiOutcomes
      [] OTHER -> FlashcardGroqOutcomes

\* A handler invocation.  pc: the await the handler is suspended at, or "done".
\* stage: how far the pipeline got; error: the message of the error caught by the
\* handler's catch block, if any; escaped: an error left the handler and reached
\* asyncHandler; built: the invocation's call of the client accessor has
\* constructed the client; counter: the value of requestCounter the
\* invocation's own increment produced; body: the payload of a response that carries one.
NewRequest(handler, topic) ==
    [handler |-> handler, pc |-> "start", stage |-> "request", topic |-> topic,
     validCount |-> 0, counter |-> 0, currentProvider |-> "", providerCalls |-> 0,
     createCalls |-> 0, extracted |-> FALSE, rawText |-> Undef,
     caught |-> FALSE, escaped |-> FALSE, error |-> Undef, validated |-> <<>>,
     body |-> Undef, built |-> FALSE, responses |-> <<>>]

\* topic.trim is not a function: the topic is truthy and no string, and the test
\* of the topic throws a TypeError.
topicTrimThrows(topic) == Truthy(topic) /\ topic.t # "str"

\* Mutant of topicMissing: the topic is not trimmed before the test.
topicMissingMutant(topic) == ~Truthy(topic)

\* !topic || topic.trim().length === 0
topicMissing(topic) == ~Truthy(topic) \/ Len(trim(topic.v)) = 0

\* res.status(..).json(..): the handler ends at that stage with that response.
Respond(req, stage, response) ==
    [req EXCEPT !.pc = "done", !.stage = stage,
                !.responses = Append(@, response)]

\* Mutant of Catch: a failed provider call is retried once on the other provider.
CatchMutant(req, stage, message, response) ==
    IF stage = "provider" /\ req.providerCalls < 2
    THEN [req EXCEPT !.providerCalls = @ + 1,
                     !.currentProvider = IF @ = "GEMINI" THEN "GROQ" ELSE "GEMINI"]
    ELSE [Respond(req, stage, response) EXCEPT !.caught = TRUE, !.error = message]

\* The handler's catch block runs on an error with that message.
Catch(req, stage, message, response) ==
    [Respond(req, stage, response) EXCEPT !.caught = TRUE, !.error = message]

\* An error with that message is thrown outside the handler's try block: the
\* promise of the handler rejects, asyncHandler passes the error to next and
\* errorHandler answers.
Throw(req, stage, message) ==
    [Respond(req, stage, errorHandler) EXCEPT !.escaped = TRUE, !.error = message]

\* No function is under check.
NoProbe == [fn |-> "none", arg |-> Undef, applied |-> FALSE, out |-> 0]

\* The process right after the modules are loaded.
Init ==
    /\ env \in [GEMINI_API_KEY : BOOLEAN, GROQ_API_KEY : BOOLEAN]
    /\ requestCounter = 0
    /\ geminiModel = FALSE
    /\ groqClient = FALSE
    /\ groq = FALSE
    /\ studyModel = FALSE
    /\ requests = <<>>
    /\ db = <<>>
    /\ NoChallenges
    /\ probe = NoProbe

\* The process after it has served any number of requests: the first flashcard
\* request selects Gemini and the second Groq, and a client is cached only once
\* its key was found and its provider selected.
InitServing ==
    /\ env \in [GEMINI_API_KEY : BOOLEAN, GROQ_API_KEY : BOOLEAN]
    /\ requestCounter \in 0..MaxCounter
    /\ geminiModel \in {b \in BOOLEAN : b => (env.GEMINI_API_KEY /\ requestCounter >= 1)}
    /\ groqClient \in {b \in BOOLEAN : b => (env.GROQ_API_KEY /\ requestCounter >= 2)}
    /\ groq \in {b \in BOOLEAN : b => env.GROQ_API_KEY}
    /\ studyModel \in {b \in BOOLEAN : b => env.GEMINI_API_KEY}
    /\ requests = <<>>
    /\ db = <<>>
    /\ NoChallenges
    /\ probe = NoProbe

(* ------------------------------------------------------------------ *)
(* Handlers                                                             *)
(* ------------------------------------------------------------------ *)

\* The catch block of a handler.
catchBlock(handler, message) ==
    CASE handler = "generateQuiz" -> catchGenerateQuiz(message)
      [] handler = "generateQuizGroq" -> catchGenerateQuizGroq(message)
      [] OTHER -> catchGenerateFlashcards(message)

\* getGeminiModel throws when GEMINI_API_KEY is not set (flashcard.controller.js 9-11).
getGeminiModelThrows == ~env.GEMINI_API_KEY

\* getGroqClient throws when GROQ_API_KEY is not set (33-35, part_007 9-11).
getGroqClientThrows == ~env.GROQ_API_KEY

\* Mutant of constructs: the accessor constructs a client at every call.
constructsMutant(cached) == TRUE

\* if (!geminiModel), if (!groqClient), if (!groq): the accessor constructs the
\* client when none is cached.
constructs(cached) == ~cached

\* Mutant of useGroq: rotation over three slots, two of them Gemini.
useGroqMutant(counter) == counter % 3 = 0

\* requestCounter % 2 === 0
useGroq(counter) == counter % 2 = 0

\* Mutant of noneValid: the handler goes on to create with no item.
noneValidMutant(validated) == FALSE

\* validatedQuestions.length === 0, validatedCards.length === 0
noneValid(validated) == Len(validated) = 0

\* generateQuiz of quiz.controller.js, up to the await of model.generateContent.
generateQuiz_Start(topic, questionCount) ==
    LET req == NewRequest("generateQuiz", topic)
    IN  /\ requests' = Append(requests,
              IF topicTrimThrows(topic) THEN Throw(req, "request", Str(MsgNotAFunction))
              ELSE IF topicMissing(topic) THEN Respond(req, "request", TopicRequired)
              ELSE [req EXCEPT !.pc = "awaitProvider", !.stage = "provider",
                               !.validCount = validQuestionCount(questionCount),
                               !.currentProvider = "GEMINI",
                               !.providerCalls = 1])
        /\ UNCHANGED <<challengeVars, env, studyModel, requestCounter, geminiModel, groqClient, groq, db, probe>>

\* generateQuiz of part_007, up to the await of chat.completions.create.
generateQuizGroq_Start(topic, questionCount) ==
    LET req == [NewRequest("generateQuizGroq", topic) EXCEPT !.currentProvider = "GROQ"]
        counted == [req EXCEPT !.validCount = validQuestionCount(questionCount)]
    IN  /\ IF topicTrimThrows(topic)
           THEN /\ requests' = Append(requests, Throw(req, "request", Str(MsgNotAFunction)))
                /\ groq' = groq
           ELSE IF topicMissing(topic)
           THEN /\ requests' = Append(requests, Respond(req, "request", TopicRequired))
                /\ groq' = groq
           ELSE IF getGroqClientThrows
           THEN /\ requests' = Append(requests,
                      Catch(counted, "credential", Str(MsgGroqKeyMissing),
                            catchGenerateQuizGroq(Str(MsgGroqKeyMissing))))
                /\ groq' = groq
           ELSE /\ requests' = Append(requests,
                      [counted EXCEPT !.pc = "awaitProvider", !.stage = "provider",
                                      !.providerCalls = 1, !.built = constructs(groq)])
                /\ groq' = TRUE
        /\ UNCHANGED <<challengeVars, env, studyModel, requestCounter, geminiModel, groqClient, db, probe>>

\* Mutant of increment: the counter wraps around the number of providers.
incrementMutant(counter) == (counter + 1) % 2

\* requestCounter++
increment(counter) == counter + 1

\* generateFlashcards, up to the await of the selected provider's call.
generateFlashcards_Start(topic, cardCount) ==
    LET counter == increment(requestCounter)
        currentProvider == IF useGroq(counter) THEN "GROQ" ELSE "GEMINI"
        missing == IF useGroq(counter) THEN MsgGroqKeyMissing ELSE MsgGeminiKeyMissing
        req == [NewRequest("generateFlashcards", topic)
                    EXCEPT !.currentProvider = currentProvider, !.counter = counter]
        counted == [req EXCEPT !.validCount = validCardCount(cardCount)]
        throws == IF useGroq(counter) THEN getGroqClientThrows ELSE getGeminiModelThrows
        calls == ~topicTrimThrows(topic) /\ ~topicMissing(topic) /\ ~throws
    IN  /\ requestCounter' = counter
        /\ requests' = Append(requests,
              IF topicTrimThrows(topic) THEN Throw(req, "request", Str(MsgNotAFunction))
              ELSE IF topicMissing(topic) THEN Respond(req, "request", TopicRequired)
              ELSE IF throws
              THEN Catch(counted, "credential", Str(missing),
                         catchGenerateFlashcards(Str(missing)))
              ELSE [counted EXCEPT !.pc = "awaitProvider", !.stage = "provider",
                                   !.providerCalls = 1,
                                   !.built = constructs(IF useGroq(counter)
                                                        THEN groqClient ELSE geminiModel)])
        /\ groqClient' = (groqClient \/ (calls /\ useGroq(counter)))
        /\ geminiModel' = (geminiModel \/ (calls /\ ~useGroq(counter)))
        /\ UNCHANGED <<challengeVars, env, studyModel, groq, db, probe>>

\* generateQuiz (both files), from the provider's answer to the await of
\* prisma.quiz.create.
generateQuiz_ProviderReturn(i, outcome) ==
    LET req == requests[i]
        text == IF req.handler = "generateQuiz"
                THEN extractTextFromResult_quiz(outcome.result)
                ELSE extractTextFromResult_groq(outcome.result)
        got == [req EXCEPT !.extracted = TRUE, !.rawText = text]
        quizData == parseQuizJSON(text)
        questions == Field(quizData.val, "questions")
        validated == validatedQuestions(questions.v)
    IN  /\ req.handler \in {"generateQuiz", "generateQuizGroq"}
        /\ req.pc = "awaitProvider"
        /\ requests' = [requests EXCEPT ![i] =
              IF ~outcome.ok
              THEN Catch(req, "provider", outcome.message,
                         catchBlock(req.handler, outcome.message))
              ELSE IF \/ ~quizData.ok
                      \/ quizData.val.t = "null"
                      \/ ~Truthy(questions)
                      \/ questions.t # "arr"
                      \/ Len(questions.v) = 0
              THEN Respond(got, "parse", QuizParseFailure)
              ELSE IF noneValid(validated)
              THEN Respond(got, "validate", QuizNoValidQuestions)
              ELSE [got EXCEPT !.pc = "awaitCreate", !.stage = "create",
                               !.validated = validated, !.createCalls = @ + 1]]
        /\ UNCHANGED <<challengeVars, env, studyModel, requestCounter, geminiModel, groqClient, groq, db, probe>>

\* generateFlashcards, from the provider's answer to the await of
\* prisma.flashcardSet.create.
generateFlashcards_ProviderReturn(i, outcome) ==
    LET req == requests[i]
        rawText == extractTextFromResult_flashcard(outcome.result, req.currentProvider)
        got == [req EXCEPT !.extracted = TRUE, !.rawText = rawText]
        flashcardData == parseFlashcardJSON(rawText)
        cards == Field(flashcardData.val, "cards")
        validated == validatedCards(cards.v)
    IN  /\ req.handler = "generateFlashcards"
        /\ req.pc = "awaitProvider"
        /\ requests' = [requests EXCEPT ![i] =
              IF ~outcome.ok
              THEN Catch(req, "provider", outcome.message,
                         catchGenerateFlashcards(outcome.message))
              ELSE IF \/ ~flashcardData.ok
                      \/ flashcardData.val.t = "null"
                      \/ ~Truthy(cards)
                      \/ cards.t # "arr"
              THEN Respond(got, "parse", FlashcardParseFailure)
              ELSE IF cardFilterThrows(cards.v)
              THEN Catch(got, "validate", Str(MsgTypeError),
                         catchGenerateFlashcards(Str(MsgTypeError)))
              ELSE IF noneValid(validated)
              THEN Catch(got, "validate", Str(MsgNoValidFlashcards),
                         catchGenerateFlashcards(Str(MsgNoValidFlashcards)))
              ELSE [got EXCEPT !.pc = "awaitCreate", !.stage = "create",
                               !.validated = validated, !.createCalls = @ + 1]]
        /\ UNCHANGED <<challengeVars, env, studyModel, requestCounter, geminiModel, groqClient, groq, db, probe>>

\* The awaited prisma create of a handler settles: the set is stored and the 201
\* response sent, or the create rejects, nothing is stored and the catch block runs.
generate_CreateReturn(i, created, message) ==
    LET req == requests[i]
        items == IF req.handler = "generateFlashcards"
                 THEN createdCards(req.validated)
                 ELSE createdQuestions(req.validated)
    IN  /\ req.pc = "awaitCreate"
        /\ IF created
           THEN /\ db' = Append(db, [request |-> i, items |-> items])
                /\ requests' = [requests EXCEPT ![i] =
                      Respond(req, "ok", Created(Len(items)))]
           ELSE /\ db' = db
                /\ requests' = [requests EXCEPT ![i] =
                      Catch(req, "create", message, catchBlock(req.handler, message))]
        /\ UNCHANGED <<challengeVars, env, studyModel, requestCounter, geminiModel, groqClient, groq, probe>>

\* One request, handled from its arrival to its response.
Next ==
    \/ /\ requests = <<>>
       /\ \E topic \in Topics, questionCount \in Counts :
             generateQuiz_Start(topic, questionCount)
    \/ /\ requests = <<>>
       /\ \E topic \in Topics, questionCount \in Counts :
             generateQuizGroq_Start(topic, questionCount)
    \/ /\ requests = <<>>
       /\ \E topic \in Topics, cardCount \in Counts :
             generateFlashcards_Start(topic, cardCount)
    \/ \E i \in 1..Len(requests) :
          \E outcome \in ProviderOutcomes(requests[i].handler, requests[i].currentProvider) :
              generateQuiz_ProviderReturn(i, outcome)
    \/ \E i \in 1..Len(requests) :
          \E outcome \in ProviderOutcomes(requests[i].handler, requests[i].currentProvider) :
              generateFlashcards_ProviderReturn(i, outcome)
    \/ \E i \in 1..Len(requests) :
          \/ generate_CreateReturn(i, TRUE, Undef)
          \/ \E message \in CreateErrors : generate_CreateReturn(i, FALSE, message)

\* A request arriving at a process that has served any number of requests.
Spec == InitServing /\ [][Next]_vars

\* The awaited prisma create of some request settles.
CreateSettles ==
    \E i \in 1..Len(requests) :
        \/ generate_CreateReturn(i, TRUE, Undef)
        \/ \E message \in CreateErrors : generate_CreateReturn(i, FALSE, message)

\* Spec with a store that answers every create; no step of the code makes an
\* awaited provider call settle.
SpecLive == Spec /\ WF_vars(CreateSettles)

(* ------------------------------------------------------------------ *)
(* generateStudySet (src/src/controllers/study.controller.js)           *)
(* ------------------------------------------------------------------ *)

MinStudyText == 50

\* req.body.text
StudyTexts ==
    {Undef, Str(<<"a", "b", "c">>),
     Str(<<" ">> \o Repeat("a", MinStudyText - 1) \o <<" ">>),
     Str(Repeat("a", MinStudyText))}

\* !text || text.trim().length < 50
studyTextTooShort(text) == ~Truthy(text) \/ Len(trim(text.v)) < MinStudyText

StudyTextRequired == Failure(400, "Please provide more text to analyze (min 50 chars).")

StudyFailure == Failure(500, "Failed to generate study set. Please try again.")

\* res.json(studyData)
StudySetReturned == [status |-> 200, error |-> "", count |-> 0]

RECURSIVE removeAll(_, _)
\* replace(/pattern/g, ""): every occurrence of the pattern, left to right
removeAll(s, pattern) ==
    IF Len(s) < Len(pattern) THEN s
    ELSE IF startsWith(s, pattern)
    THEN removeAll(SubSeq(s, Len(pattern) + 1, Len(s)), pattern)
    ELSE <<Head(s)>> \o removeAll(Tail(s), pattern)

\* Lines 41-48: the direct parse and, when it throws, the parse of the text with
\* every fence removed.
parseStudyJSON(textResult) ==
    LET direct == JSONparse(textResult)
    IN  IF direct.ok THEN direct
        ELSE JSONparse(removeAll(removeAll(textResult, FenceJson), Fence))

StudyOutcomes ==
    Outcomes(GeminiResults(StudyBodyIds, "sLoose")
                 \cup {Result("responseText", Str(Fenced(Braces("sGood"))))})

\* generateStudySet up to the await of model.generateContent.
generateStudySet_Start(text) ==
    LET req == NewRequest("generateStudySet", text)
    IN  /\ requests' = Append(requests,
              IF studyTextTooShort(text) THEN Respond(req, "request", StudyTextRequired)
              ELSE IF getGeminiModelThrows
              THEN Catch(req, "credential", Str(MsgGeminiKeyMissing), StudyFailure)
              ELSE [req EXCEPT !.pc = "awaitProvider", !.stage = "provider",
                               !.currentProvider = "GEMINI", !.providerCalls = 1])
        /\ studyModel' = (studyModel \/ (~studyTextTooShort(text) /\ ~getGeminiModelThrows))
        /\ UNCHANGED <<challengeVars, env, requestCounter, geminiModel, groqClient, groq, db, probe>>

\* generateStudySet from the provider's answer to its response: the parsed payload
\* is returned as it is.
generateStudySet_ProviderReturn(i, outcome) ==
    LET req == requests[i]
        textResult == outcome.result.text
        got == [req EXCEPT !.extracted = TRUE, !.rawText = textResult]
        studyData == parseStudyJSON(textResult.v)
    IN  /\ req.handler = "generateStudySet"
        /\ req.pc = "awaitProvider"
        /\ requests' = [requests EXCEPT ![i] =
              IF ~outcome.ok
              THEN Catch(req, "provider", outcome.message, StudyFailure)
              ELSE IF outcome.result.shape # "responseText"
              THEN Catch(req, "extract", Str(MsgTypeError), StudyFailure)
              ELSE IF ~studyData.ok
              THEN Catch(got, "parse", Str(MsgSyntaxError), StudyFailure)
              ELSE Respond([got EXCEPT !.body = studyData.val], "ok", StudySetReturned)]
        /\ UNCHANGED <<challengeVars, env, studyModel, requestCounter, geminiModel, groqClient, groq, db, probe>>

\* One study-set request, handled from its arrival to its response.
NextStudy ==
    \/ /\ requests = <<>>
       /\ \E text \in StudyTexts : generateStudySet_Start(text)
    \/ \E i \in 1..Len(requests) :
          \E outcome \in StudyOutcomes : generateStudySet_ProviderReturn(i, outcome)

SpecStudy == InitServing /\ [][NextStudy]_vars

(* ------------------------------------------------------------------ *)
(* Overlapping requests                                                 *)
(* ------------------------------------------------------------------ *)

ConcurrentTopics == {Undef, Str(<<"a">>)}

\* What a provider call may settle with in SpecConcurrent: a rejection or an
\* answer with valid and invalid items.
ConcurrentOutcomes(handler, provider) ==
    LET sample == IF handler = "generateFlashcards" THEN "cMixed" ELSE "qMixed"
        shape == IF provider = "GEMINI" THEN "responseText" ELSE "choicesContent"
    IN  {Rejected(Str(MsgFetchFailed)),
         Resolved(Result(shape, Str(Braces(sample))))}

\* Up to MaxRequests requests to the handlers that share module state (the
\* rotation counter and the cached clients), each suspended at its awaits while
\* the others run.
NextConcurrent ==
    \/ /\ Len(requests) < MaxRequests
       /\ \E topic \in ConcurrentTopics : generateQuizGroq_Start(topic, Undef)
    \/ /\ Len(requests) < MaxRequests
       /\ \E topic \in ConcurrentTopics : generateFlashcards_Start(topic, Undef)
    \/ \E i \in 1..Len(requests) :
          \E outcome \in ConcurrentOutcomes(requests[i].handler, requests[i].currentProvider) :
              generateQuiz_ProviderReturn(i, outcome)
    \/ \E i \in 1..Len(requests) :
          \E outcome \in ConcurrentOutcomes(requests[i].handler, requests[i].currentProvider) :
              generateFlashcards_ProviderReturn(i, outcome)
    \/ \E i \in 1..Len(requests) :
          \/ generate_CreateReturn(i, TRUE, Undef)
          \/ \E message \in CreateErrors : generate_CreateReturn(i, FALSE, message)

\* The process from its start, serving overlapping requests.
SpecConcurrent == Init /\ [][NextConcurrent]_vars

(* ------------------------------------------------------------------ *)
(* The clamp of the item count, applied to one argument                 *)
(* ------------------------------------------------------------------ *)

\* Largest magnitude of the integers tried as questionCount and cardCount.
MaxCountProbe == 52

\* req.body.questionCount, req.body.cardCount
CountProbes ==
    {Num(n) : n \in (0 - MaxCountProbe)..MaxCountProbe}
        \cup {Num(1000), Undef, Null, Str(<<"7">>), Str(<<" ", "4", "2", "x">>),
              Str(<<"-", "5">>), Str(<<"x">>), Str(<<>>)}

InitCount ==
    /\ env = [GEMINI_API_KEY |-> TRUE, GROQ_API_KEY |-> TRUE]
    /\ requestCounter = 0
    /\ geminiModel = FALSE
    /\ groqClient = FALSE
    /\ groq = FALSE
    /\ studyModel = FALSE
    /\ requests = <<>>
    /\ db = <<>>
    /\ NoChallenges
    /\ probe \in {[fn |-> f, arg |-> x, applied |-> FALSE, out |-> 0] :
                    f \in {"validQuestionCount", "validCardCount"}, x \in CountProbes}

\* The handler computes the effective count of its request.
ApplyCount ==
    /\ ~probe.applied
    /\ probe' = [probe EXCEPT !.applied = TRUE,
                              !.out = IF probe.fn = "validQuestionCount"
                                      THEN validQuestionCount(probe.arg)
                                      ELSE validCardCount(probe.arg)]
    /\ UNCHANGED <<challengeVars, env, studyModel, requestCounter, geminiModel, groqClient, groq, requests, db>>

NextCount == ApplyCount

SpecCount == InitCount /\ [][NextCount]_vars

(* ------------------------------------------------------------------ *)
(* The validation of the items, applied to one collection               *)
(* ------------------------------------------------------------------ *)

London == Str(<<"L", "o", "n", "d", "o", "n">>)

Paris == Str(<<"P", "a", "r", "i", "s">>)

Berlin == Str(<<"B", "e", "r", "l", "i", "n">>)

Madrid == Str(<<"M", "a", "d", "r", "i", "d">>)

\* q.questionText
ProbeTexts == {Str(<<"Q">>), Str(<<" ", "Q", " ">>), Str(<<" ">>), Str(<<>>), Null, Num(7), Undef}

\* q.options
ProbeOptions ==
    {Arr(<<London, Paris, Berlin, Madrid>>),
     Arr(<<Str(<<" ">> \o Paris.v), Paris, Str(Berlin.v \o <<" ">>), Str(<<"2">>)>>),
     Arr(<<Str(Paris.v \o <<" ">>), Str(<<" ">> \o Paris.v), London, Madrid>>),
     Arr(<<Str(<<"A">>), Str(<<" ">>), Null, Num(2)>>),
     Arr(<<London, Paris, Berlin>>),
     Str(<<"x">>),
     Undef}

\* q.correctAnswer
ProbeAnswers ==
    {Num(0), Num(2), Num(3), Num(4), Num(-1), Frac(1), Frac(3), Frac(-1),
     Str(<<"2">>), Str(<<"0">>), Paris, Str(<<" ">> \o Berlin.v), Str(<<"A", "t", "l">>),
     Str(<<>>), Null, Undef}

ProbeQuestions ==
    {Question(t, o, a) : t \in ProbeTexts, o \in ProbeOptions, a \in ProbeAnswers}
        \cup {Null, Str(<<"x">>), Num(1)}

\* card.front, card.back
ProbeSides == {Str(<<"F">>), Str(<<" ", "F", " ">>), Str(<<" ">>), Str(<<>>), Null, Num(7), Num(0), Undef}

ProbeCards ==
    {Card(f, b) : f \in ProbeSides, b \in ProbeSides} \cup {Null, Str(<<"x">>), Num(1)}

\* A collection of one item, or of one item between two valid ones.
ProbeLists(items, first, last) ==
    {<<x>> : x \in items} \cup {<<first, x, last>> : x \in items}

InitValidate ==
    /\ env = [GEMINI_API_KEY |-> TRUE, GROQ_API_KEY |-> TRUE]
    /\ requestCounter = 0
    /\ geminiModel = FALSE
    /\ groqClient = FALSE
    /\ groq = FALSE
    /\ studyModel = FALSE
    /\ requests = <<>>
    /\ db = <<>>
    /\ NoChallenges
    /\ probe \in
          {[fn |-> "validatedQuestions", arg |-> Arr(xs), applied |-> FALSE, out |-> 0] :
              xs \in ProbeLists(ProbeQuestions, QuestionByText, QuestionByIndex)}
          \cup
          {[fn |-> "validatedCards", arg |-> Arr(xs), applied |-> FALSE, out |-> 0] :
              xs \in ProbeLists(ProbeCards, GoodCard, NumberCard)}

\* The validation loop of generateQuiz runs over quizData.questions.
ApplyValidatedQuestions ==
    /\ ~probe.applied
    /\ probe.fn = "validatedQuestions"
    /\ probe' = [probe EXCEPT !.applied = TRUE,
                              !.out = [threw |-> FALSE,
                                       items |-> validatedQuestions(probe.arg.v)]]
    /\ UNCHANGED <<challengeVars, env, studyModel, requestCounter, geminiModel, groqClient, groq, requests, db>>

\* The filter and map of generateFlashcards run over flashcardData.cards; a
\* TypeError of the filter leaves the statement.
ApplyValidatedCards ==
    /\ ~probe.applied
    /\ probe.fn = "validatedCards"
    /\ probe' = [probe EXCEPT !.applied = TRUE,
                              !.out = IF cardFilterThrows(probe.arg.v)
                                      THEN [threw |-> TRUE, items |-> <<>>]
                                      ELSE [threw |-> FALSE,
                                            items |-> validatedCards(probe.arg.v)]]
    /\ UNCHANGED <<challengeVars, env, studyModel, requestCounter, geminiModel, groqClient, groq, requests, db>>

NextValidate == ApplyValidatedQuestions \/ ApplyValidatedCards

SpecValidate == InitValidate /\ [][NextValidate]_vars

(* ------------------------------------------------------------------ *)
(* The parsers, applied to one text and to the same text inside fences  *)
(* ------------------------------------------------------------------ *)

\* Texts that are valid JSON: an object, the empty object or null, bare or with
\* white space around it.
JsonTexts ==
    LET bare == {Braces(id) : id \in BodyIds} \cup {<<"{", "}">>, <<"n", "u", "l", "l">>}
    IN  bare \cup {<<" ">> \o t \o <<" ">> : t \in bare}
             \cup {<<"\n">> \o t \o <<"\n", "\n">> : t \in bare}

NewLines == {<<>>, <<"\n">>}

\* The text s between a leading fence (tagged json or not) and a trailing fence.
FencedTexts(s) ==
    {lead \o before \o s \o after \o Fence :
        lead \in {FenceJson, Fence}, before \in NewLines, after \in NewLines}

\* Texts around braces: prose before and after an object, two objects, a brace
\* too many, a brace missing, braces in the wrong order, no brace.
BraceTexts ==
    LET objects == {Braces(id) : id \in {"qMixed", "cMixed", "other"}} \cup {<<"{", "}">>}
    IN  objects
          \cup {InProse(o) : o \in objects}
          \cup {Fenced(InProse(o)) : o \in objects}
          \cup {a \o <<" ">> \o b : a \in objects, b \in objects}
          \cup {<<"x">> \o o \o <<"}">> : o \in objects}
          \cup {<<"{", " ">> \o o : o \in objects}
          \cup {<<"{", "qMixed">>, <<"qMixed", "}">>, <<"}", " ", "{">>,
                <<"}", "qMixed", "{">>, <<"x">>, <<>>, <<"{">>, <<"}">>}

InitParse ==
    /\ env = [GEMINI_API_KEY |-> TRUE, GROQ_API_KEY |-> TRUE]
    /\ requestCounter = 0
    /\ geminiModel = FALSE
    /\ groqClient = FALSE
    /\ groq = FALSE
    /\ studyModel = FALSE
    /\ requests = <<>>
    /\ db = <<>>
    /\ NoChallenges
    /\ \/ \E f \in {"parseQuizJSON", "parseFlashcardJSON"}, json \in JsonTexts :
             \E text \in FencedTexts(json) :
                 probe = [fn |-> f, arg |-> [json |-> Str(json), text |-> Str(text)],
                          applied |-> FALSE, out |-> 0]
       \/ \E text \in BraceTexts :
             probe = [fn |-> "parseWithBraceFallback", arg |-> Str(text),
                      applied |-> FALSE, out |-> 0]

\* The handler parses the text of the provider, once given bare and once fenced.
ApplyParse ==
    /\ ~probe.applied
    /\ probe.fn \in {"parseQuizJSON", "parseFlashcardJSON"}
    /\ probe' = [probe EXCEPT !.applied = TRUE,
                              !.out = IF probe.fn = "parseQuizJSON"
                                      THEN [json |-> parseQuizJSON(probe.arg.json),
                                            text |-> parseQuizJSON(probe.arg.text)]
                                      ELSE [json |-> parseFlashcardJSON(probe.arg.json),
                                            text |-> parseFlashcardJSON(probe.arg.text)]]
    /\ UNCHANGED <<challengeVars, env, studyModel, requestCounter, geminiModel, groqClient, groq, requests, db>>

\* Both parsers applied to one text of the provider.
ApplyFallback ==
    /\ ~probe.applied
    /\ probe.fn = "parseWithBraceFallback"
    /\ probe' = [probe EXCEPT !.applied = TRUE,
                              !.out = [quiz |-> parseQuizJSON(probe.arg),
                                       flashcard |-> parseFlashcardJSON(probe.arg)]]
    /\ UNCHANGED <<challengeVars, env, studyModel, requestCounter, geminiModel, groqClient, groq, requests, db>>

NextParse == ApplyParse \/ ApplyFallback

SpecParse == InitParse /\ [][NextParse]_vars

(* ------------------------------------------------------------------ *)
(* The text extraction, applied to one provider result                  *)
(* ------------------------------------------------------------------ *)

\* The results a provider call may resolve with.
ExtractResults ==
    GeminiResults(QuizBodyIds, "qMixed") \cup GroqResults(FlashcardBodyIds, "cMixed")
        \cup {Result("nullResult", Undef)}

InitExtract ==
    /\ env = [GEMINI_API_KEY |-> TRUE, GROQ_API_KEY |-> TRUE]
    /\ requestCounter = 0
    /\ geminiModel = FALSE
    /\ groqClient = FALSE
    /\ groq = FALSE
    /\ studyModel = FALSE
    /\ requests = <<>>
    /\ db = <<>>
    /\ NoChallenges
    /\ \E result \in ExtractResults :
          \E f \in {[fn |-> "extractTextFromResult_quiz", provider |-> "GEMINI"],
                    [fn |-> "extractTextFromResult_groq", provider |-> "GROQ"],
                    [fn |-> "extractTextFromResult_flashcard", provider |-> "GEMINI"],
                    [fn |-> "extractTextFromResult_flashcard", provider |-> "GROQ"]} :
              probe = [fn |-> f.fn, arg |-> [result |-> result, provider |-> f.provider],
                       applied |-> FALSE, out |-> 0]

\* The handler extracts the text of the provider's result.
ApplyExtract ==
    /\ ~probe.applied
    /\ probe.fn \in {"extractTextFromResult_quiz", "extractTextFromResult_groq",
                     "extractTextFromResult_flashcard"}
    /\ probe' = [probe EXCEPT
          !.applied = TRUE,
          !.out = CASE probe.fn = "extractTextFromResult_quiz" ->
                         extractTextFromResult_quiz(probe.arg.result)
                    [] probe.fn = "extractTextFromResult_groq" ->
                         extractTextFromResult_groq(probe.arg.result)
                    [] OTHER ->
                         extractTextFromResult_flashcard(probe.arg.result,
                                                         probe.arg.provider)]
    /\ UNCHANGED <<challengeVars, env, studyModel, requestCounter, geminiModel, groqClient, groq, requests, db>>

NextExtract == ApplyExtract

SpecExtract == InitExtract /\ [][NextExtract]_vars

(* ------------------------------------------------------------------ *)
(* Challenges (src/src/controllers/user.controller.js, 133-432)         *)
(* ------------------------------------------------------------------ *)

\* Number of calls of acceptChallenge, rejectChallenge and cancelChallenge.
MaxCalls == 2

\* Hours the clock advances in one step, and the last hour of a behaviour.
TickHours == 24

MaxClock == 48

\* expiresAt.setHours(expiresAt.getHours() + 24)
ChallengeLifetime == 24

\* The null of the column acceptedAt, and of a found row.
NullDate == -1

NoRow == 0

\* req.userId of the callers: the challenger, the opponent and a third user.
Users == {1, 2, 3}

\* The senders of a challenge (req.userId) and req.body.opponentId: a user, none
\* (0) or the id of no user (9).
ChallengerIds == {1}

OpponentIds == {2, 0, 9}

\* req.params.challengeId
ChallengeIds == {1}

\* sendChallenge: 400 without an opponent id, 404 for an unknown opponent, else
\* the row is created with the defaults of the table (status pending, acceptedAt
\* null).  The lookups of the handler read the User and Quiz tables only.
sendChallenge(challengerId, opponentId) ==
    /\ opponentId # 0
    /\ opponentId \in Users
    /\ challenges' = Append(challenges,
          [challengerId |-> challengerId, opponentId |-> opponentId,
           status |-> "pending", expiresAt |-> clock + ChallengeLifetime,
           acceptedAt |-> NullDate])
    /\ UNCHANGED <<clock, challengeCalls>>
    /\ UNCHANGED generationVars

\* Mutant of findFirst: the caller is not part of the query.
findFirstMutant(challengeId, role, userId) ==
    IF /\ challengeId \in 1..Len(challenges)
       /\ challenges[challengeId].status = "pending"
    THEN challengeId ELSE NoRow

\* prisma.challenge.findFirst({ where: { id, [role]: userId, status: "pending" } })
findFirst(challengeId, role, userId) ==
    IF /\ challengeId \in 1..Len(challenges)
       /\ challenges[challengeId][role] = userId
       /\ challenges[challengeId].status = "pending"
    THEN challengeId ELSE NoRow

\* An invocation of a challenge handler.  found: the row findFirst gave; now: the
\* clock read by the handler after findFirst; data: the data of its update;
\* after: the status of the response that follows the update; status: the status
\* of the response sent; doneBefore: the calls that had ended when this one began.
NewCall(handler, userId, challengeId, found) ==
    [handler |-> handler, userId |-> userId, challengeId |-> challengeId,
     pc |-> "awaitFind", found |-> found, now |-> NullDate,
     data |-> [status |-> "", acceptedAt |-> NullDate], after |-> 0, status |-> 0,
     doneBefore |-> {i \in 1..Len(challengeCalls) : challengeCalls[i].pc = "done"}]

\* res.status(status).json(..) of a challenge handler
Answer(call, status) == [call EXCEPT !.pc = "done", !.status = status]

\* The handler awaits prisma.challenge.update with that data.
Update(call, status, acceptedAt, after) ==
    [call EXCEPT !.pc = "awaitUpdate", !.after = after,
                 !.data = [status |-> status, acceptedAt |-> acceptedAt]]

\* acceptChallenge up to the await of findFirst, which reads the table.
acceptChallenge_Start(userId, challengeId) ==
    /\ challengeCalls' = Append(challengeCalls,
          NewCall("acceptChallenge", userId, challengeId,
                  findFirst(challengeId, "opponentId", userId)))
    /\ UNCHANGED <<challenges, clock>>
    /\ UNCHANGED generationVars

\* rejectChallenge up to the await of findFirst.
rejectChallenge_Start(userId, challengeId) ==
    /\ challengeCalls' = Append(challengeCalls,
          NewCall("rejectChallenge", userId, challengeId,
                  findFirst(challengeId, "opponentId", userId)))
    /\ UNCHANGED <<challenges, clock>>
    /\ UNCHANGED generationVars

\* cancelChallenge up to the await of findFirst.
cancelChallenge_Start(userId, challengeId) ==
    /\ challengeCalls' = Append(challengeCalls,
          NewCall("cancelChallenge", userId, challengeId,
                  findFirst(challengeId, "challengerId", userId)))
    /\ UNCHANGED <<challenges, clock>>
    /\ UNCHANGED generationVars

\* Mutant of expired: a challenge stays open for one more lifetime.
expiredMutant(now, expiresAt) == now > expiresAt + ChallengeLifetime

\* new Date() > challenge.expiresAt
expired(now, expiresAt) == now > expiresAt

\* acceptChallenge from the answer of findFirst to the await of the update.
acceptChallenge_FindReturn(i) ==
    LET call == [challengeCalls[i] EXCEPT !.now = clock]
    IN  /\ call.handler = "acceptChallenge"
        /\ call.pc = "awaitFind"
        /\ challengeCalls' = [challengeCalls EXCEPT ![i] =
              IF call.found = NoRow THEN Answer(call, 404)
              ELSE IF expired(clock, challenges[call.found].expiresAt)
              THEN Update(call, "expired", NullDate, 400)
              ELSE Update(call, "accepted", clock, 200)]
        /\ UNCHANGED <<challenges, clock>>
        /\ UNCHANGED generationVars

\* rejectChallenge from the answer of findFirst to the await of the update.
rejectChallenge_FindReturn(i) ==
    LET call == [challengeCalls[i] EXCEPT !.now = clock]
    IN  /\ call.handler = "rejectChallenge"
        /\ call.pc = "awaitFind"
        /\ challengeCalls' = [challengeCalls EXCEPT ![i] =
              IF call.found = NoRow THEN Answer(call, 404)
              ELSE Update(call, "rejected", NullDate, 200)]
        /\ UNCHANGED <<challenges, clock>>
        /\ UNCHANGED generationVars

\* cancelChallenge from the answer of findFirst to the await of the update.
cancelChallenge_FindReturn(i) ==
    LET call == [challengeCalls[i] EXCEPT !.now = clock]
    IN  /\ call.handler = "cancelChallenge"
        /\ call.pc = "awaitFind"
        /\ challengeCalls' = [challengeCalls EXCEPT ![i] =
              IF call.found = NoRow THEN Answer(call, 404)
              ELSE Update(call, "cancelled", NullDate, 200)]
        /\ UNCHANGED <<challenges, clock>>
        /\ UNCHANGED generationVars

\* prisma.challenge.update({ where: { id }, data }) of a handler is applied and
\* the handler answers; a column that is not in the data keeps its value.
challenge_UpdateReturn(i) ==
    LET call == challengeCalls[i]
    IN  /\ call.pc = "awaitUpdate"
        /\ challenges' = [challenges EXCEPT ![call.challengeId] =
              [@ EXCEPT !.status = call.data.status,
                        !.acceptedAt = IF call.data.acceptedAt = NullDate
                                       THEN @ ELSE call.data.acceptedAt]]
        /\ challengeCalls' = [challengeCalls EXCEPT ![i] = Answer(call, call.after)]
        /\ UNCHANGED clock
        /\ UNCHANGED generationVars

\* Time passes.
Tick ==
    /\ clock + TickHours <= MaxClock
    /\ clock' = clock + TickHours
    /\ UNCHANGED <<challenges, challengeCalls>>
    /\ UNCHANGED generationVars

InitChallenge ==
    /\ env = [GEMINI_API_KEY |-> TRUE, GROQ_API_KEY |-> TRUE]
    /\ requestCounter = 0
    /\ geminiModel = FALSE
    /\ groqClient = FALSE
    /\ groq = FALSE
    /\ studyModel = FALSE
    /\ requests = <<>>
    /\ db = <<>>
    /\ probe = NoProbe
    /\ NoChallenges

\* One challenge, sent and answered by overlapping requests of the users.
NextChallenge ==
    \/ /\ challenges = <<>>
       /\ \E challengerId \in ChallengerIds, opponentId \in OpponentIds :
             sendChallenge(challengerId, opponentId)
    \/ /\ Len(challengeCalls) < MaxCalls
       /\ \E userId \in Users, challengeId \in ChallengeIds :
             acceptChallenge_Start(userId, challengeId)
    \/ /\ Len(challengeCalls) < MaxCalls
       /\ \E userId \in Users, challengeId \in ChallengeIds :
             rejectChallenge_Start(userId, challengeId)
    \/ /\ Len(challengeCalls) < MaxCalls
       /\ \E userId \in Users, challengeId \in ChallengeIds :
             cancelChallenge_Start(userId, challengeId)
    \/ \E i \in 1..Len(challengeCalls) : acceptChallenge_FindReturn(i)
    \/ \E i \in 1..Len(challengeCalls) : rejectChallenge_FindReturn(i)
    \/ \E i \in 1..Len(challengeCalls) : cancelChallenge_FindReturn(i)
    \/ \E i \in 1..Len(challengeCalls) : challenge_UpdateReturn(i)
    \/ Tick

SpecChallenge == InitChallenge /\ [][NextChallenge]_vars

(* ------------------------------------------------------------------ *)
(* authenticateToken (src/src/middleware/authMiddleware.js)             *)
(* ------------------------------------------------------------------ *)

\* The tokens of the model; in a text a token is one atomic symbol.
JwtIds ==
    {"jwtUser1", "jwtUser2", "jwtUser3", "jwtNoUserId", "jwtExpired1", "jwtExpired2",
     "jwtForged1", "jwtForged2"}

\* What a token is: signed with JWT_SECRET or not, expired or not, and the
\* userId of its payload (undefined when the payload has none).
JwtClaims(id) ==
    CASE id = "jwtUser1" -> [signed |-> TRUE, expired |-> FALSE, userId |-> Num(1)]
      [] id = "jwtUser2" -> [signed |-> TRUE, expired |-> FALSE, userId |-> Num(2)]
      [] id = "jwtUser3" -> [signed |-> TRUE, expired |-> FALSE, userId |-> Num(3)]
      [] id = "jwtNoUserId" -> [signed |-> TRUE, expired |-> FALSE, userId |-> Undef]
      [] id = "jwtExpired1" -> [signed |-> TRUE, expired |-> TRUE, userId |-> Num(1)]
      [] id = "jwtExpired2" -> [signed |-> TRUE, expired |-> TRUE, userId |-> Num(2)]
      [] id = "jwtForged1" -> [signed |-> FALSE, expired |-> FALSE, userId |-> Num(1)]
      [] OTHER -> [signed |-> FALSE, expired |-> FALSE, userId |-> Num(2)]

\* jwt.verify(token, process.env.JWT_SECRET, callback): the arguments err and
\* user of the callback.  A text that is no token is malformed.
jwtVerify(token) ==
    IF Len(token) = 1 /\ token[1] \in JwtIds
          /\ JwtClaims(token[1]).signed /\ ~JwtClaims(token[1]).expired
    THEN [err |-> FALSE, user |-> [userId |-> JwtClaims(token[1]).userId]]
    ELSE [err |-> TRUE, user |-> [userId |-> Undef]]

RECURSIVE split(_, _)
\* String.prototype.split(separator) for a separator of one character
split(s, separator) ==
    LET at == indexOf(s, separator)
    IN  IF at = -1 THEN <<s>>
        ELSE <<substring(s, 0, at)>> \o split(substring(s, at + 1, Len(s)), separator)

\* authHeader && authHeader.split(" ")[1]
bearerToken(authHeader) ==
    IF ~Truthy(authHeader) THEN authHeader
    ELSE LET words == split(authHeader.v, " ")
         IN  IF Len(words) >= 2 THEN Str(words[2]) ELSE Undef

\* Mutant of authenticateToken: a token that fails to verify is only logged.
authenticateTokenMutant(authHeader) ==
    LET token == bearerToken(authHeader)
    IN  IF ~Truthy(token)
        THEN [status |-> 401, error |-> "Authentication token required",
              next |-> FALSE, userId |-> Undef]
        ELSE [status |-> 0, error |-> "", next |-> TRUE,
              userId |-> jwtVerify(token.v).user.userId]

\* authenticateToken: the response it sends (status 0: none), whether it calls
\* next, and req.userId afterwards.
authenticateToken(authHeader) ==
    LET token == bearerToken(authHeader)
    IN  IF ~Truthy(token)
        THEN [status |-> 401, error |-> "Authentication token required",
              next |-> FALSE, userId |-> Undef]
        ELSE IF jwtVerify(token.v).err
        THEN [status |-> 403, error |-> "Invalid or expired token",
              next |-> FALSE, userId |-> Undef]
        ELSE [status |-> 0, error |-> "", next |-> TRUE,
              userId |-> jwtVerify(token.v).user.userId]

\* The scheme word of an Authorization header.
Schemes ==
    {<<"B", "e", "a", "r", "e", "r">>, <<"b", "e", "a", "r", "e", "r">>,
     <<"B", "a", "s", "i", "c">>, <<"T", "o", "k", "e", "n">>, <<"J", "W", "T">>}

\* The requests: req.headers["authorization"] and the token the request
\* carries ("none": no token).
AuthRequests ==
    {[header |-> Undef, token |-> "none"], [header |-> Str(<<>>), token |-> "none"]}
      \cup {[header |-> Str(s), token |-> "none"] : s \in Schemes}
      \cup {[header |-> Str(s \o <<" ">>), token |-> "none"] : s \in Schemes}
      \cup {[header |-> Str(s \o <<" ", id>>), token |-> id] :
                s \in Schemes, id \in JwtIds \cup {"x"}}
      \cup {[header |-> Str(s \o <<" ", id, " ", "x">>), token |-> id] :
                s \in {<<"B", "e", "a", "r", "e", "r">>}, id \in JwtIds}

InitAuth ==
    /\ env = [GEMINI_API_KEY |-> TRUE, GROQ_API_KEY |-> TRUE]
    /\ requestCounter = 0
    /\ geminiModel = FALSE
    /\ groqClient = FALSE
    /\ groq = FALSE
    /\ studyModel = FALSE
    /\ requests = <<>>
    /\ db = <<>>
    /\ NoChallenges
    /\ \E request \in AuthRequests :
          probe = [fn |-> "authenticateToken", arg |-> request,
                   applied |-> FALSE, out |-> 0]

\* router.use(authenticateToken): the middleware runs on a request.
ApplyAuth ==
    /\ ~probe.applied
    /\ probe.fn = "authenticateToken"
    /\ probe' = [probe EXCEPT !.applied = TRUE,
                              !.out = authenticateToken(probe.arg.header)]
    /\ UNCHANGED <<challengeVars, env, studyModel, requestCounter, geminiModel, groqClient, groq, requests, db>>

NextAuth == ApplyAuth

SpecAuth == InitAuth /\ [][NextAuth]_vars

(* ------------------------------------------------------------------ *)
(* Properties                                                           *)
(* ------------------------------------------------------------------ *)

Requests == 1..Len(requests)

Done(i) == requests[i].pc = "done"

\* The response of a finished request.
Response(i) == requests[i].responses[Len(requests[i].responses)]

\* The sets request i has stored.
Stored(i) == {k \in 1..Len(db) : db[k].request = i}

IsFlashcards(req) == req.handler = "generateFlashcards"

\* The invocations of generateFlashcards, in order of arrival.
Selections == SelectSeq(requests, IsFlashcards)

\* C1: with the two providers, any two consecutive provider selections made by
\* generateFlashcards differ, and the k-th selection is the function of the
\* rotation counter k: Groq when k mod 2 = 0, Gemini otherwise.
C1_ConsecutiveSelectionsDiffer ==
    /\ requestCounter = Len(Selections)
    /\ \A k \in 1..Len(Selections) :
          Selections[k].currentProvider = (IF k % 2 = 0 THEN "GROQ" ELSE "GEMINI")
    /\ \A k \in 1..(Len(Selections) - 1) :
          Selections[k].currentProvider # Selections[k + 1].currentProvider

C1_Witness ==
    /\ Len(Selections) >= 2
    /\ Selections[1].currentProvider = "GEMINI"
    /\ Selections[2].currentProvider = "GROQ"

\* C2: every 201 response reports a number of stored items that is at least 1
\* and at most the effective (clamped) item count of the request.
C2_AcceptedWithinRequested ==
    \A i \in Requests :
        (Done(i) /\ Response(i).status = 201) =>
            /\ Response(i).count >= 1
            /\ Response(i).count <= requests[i].validCount

\* C3: for every integer item count the effective count is
\* min(max(itemCount, min), max), with min 10 and max 50 for a quiz and min 5 and
\* max 30 for flashcards.
C3_ClampOfEveryInteger ==
    (probe.applied /\ probe.arg.t = "num") =>
        probe.out = (IF probe.fn = "validQuestionCount"
                     THEN MathMin(MathMax(probe.arg.v, 10), 50)
                     ELSE MathMin(MathMax(probe.arg.v, 5), 30))

\* A topic that is missing, empty or made of white space only.
BlankTopic(topic) ==
    \/ topic.t \in {"undef", "null"}
    \/ topic.t = "str" /\ \A k \in 1..Len(topic.v) : topic.v[k] \in WhiteSpace

\* C4: a request whose topic is missing, empty or white space only is answered
\* 400 "Topic is required", issues no provider call and stores nothing.
C4_BlankTopicRejected ==
    \A i \in Requests :
        BlankTopic(requests[i].topic) =>
            /\ requests[i].responses = <<Failure(400, "Topic is required")>>
            /\ requests[i].pc = "done"
            /\ requests[i].providerCalls = 0
            /\ requests[i].createCalls = 0
            /\ Stored(i) = {}

C4_Witness ==
    \E i \in Requests :
        /\ requests[i].topic = Str(<<" ", "\t">>)
        /\ Done(i)
        /\ Response(i).status = 400

\* The extracted text of a request parses to a payload.
ParsesToPayload(req) ==
    IF IsFlashcards(req) THEN parseFlashcardJSON(req.rawText).ok
    ELSE parseQuizJSON(req.rawText).ok

\* C5: a handler issues the create at most once and only after extraction,
\* parsing and validation left at least one valid item; a request answered 400,
\* 429 or 500 has stored nothing.
C5_NoPersistenceBeforeSuccess ==
    \A i \in Requests :
        /\ requests[i].createCalls <= 1
        /\ Cardinality(Stored(i)) <= requests[i].createCalls
        /\ requests[i].createCalls = 1 =>
              /\ requests[i].extracted
              /\ ParsesToPayload(requests[i])
              /\ Len(requests[i].validated) >= 1
        /\ \A k \in Stored(i) : Len(db[k].items) >= 1
        /\ (Done(i) /\ Response(i).status \in {400, 429, 500}) => Stored(i) = {}

C5_Witness ==
    \E i \in Requests :
        /\ Done(i)
        /\ Response(i).status = 201
        /\ requests[i].createCalls = 1
        /\ Cardinality(Stored(i)) = 1

\* The provider call of request i failed with an error that has a message.
ProviderFailedWith(i) ==
    /\ requests[i].caught
    /\ requests[i].stage = "provider"
    /\ requests[i].error.t = "str"

\* C6 as stated: a provider error whose message contains "quota" is answered 429
\* and nothing is stored, in the quiz handlers and in the flashcard handler.
C6_QuotaIsOverloaded ==
    \A i \in Requests :
        (ProviderFailedWith(i) /\ includes(requests[i].error.v, PhraseQuota)) =>
            /\ Response(i).status = 429
            /\ Stored(i) = {}

\* The message names a credential problem, in any letter case.
NamesCredential(message) ==
    \/ includes(toLowerCase(message), PhraseApiKeyLower)
    \/ includes(toLowerCase(message), PhraseUnauthorized)

\* C6 amended: a provider error whose message contains "quota" and neither
\* "api key" nor "unauthorized" in any letter case is answered 429 and nothing is
\* stored, in the quiz handlers and in the flashcard handler.
C6_QuotaWithoutCredentialIsOverloaded ==
    \A i \in Requests :
        (/\ ProviderFailedWith(i)
         /\ includes(requests[i].error.v, PhraseQuota)
         /\ ~NamesCredential(requests[i].error.v)) =>
            /\ Done(i)
            /\ Response(i).status = 429
            /\ Stored(i) = {}

C6_Witness ==
    \E i \in Requests :
        /\ requests[i].handler = "generateFlashcards"
        /\ ProviderFailedWith(i)
        /\ requests[i].error = Str(MsgQuotaLower)
        /\ Response(i).status = 429

\* The responses of the handlers, by outcome.
ConfigurationFailure ==
    {Failure(500, "API configuration error. Please contact support."),
     Failure(500, "Server Configuration Error (API Key).")}

Overloaded ==
    {Failure(429, "Service temporarily unavailable. Please try again later."),
     Failure(429, "System busy. Please try again.")}

ParsingFailure ==
    {Failure(500, "Failed to generate valid quiz questions. Please try again."),
     Failure(500, "No valid questions could be generated. Please try again."),
     Failure(500, "AI generation failed (Parsing Error). Please try again.")}

Unknown ==
    {Failure(500, "Failed to generate quiz. Please try again."),
     Failure(500, "Failed to generate flashcards.")}

\* C7: in every handler a provider error whose message contains "api key" or
\* "unauthorized" in any letter case is answered with the configuration failure,
\* one whose message contains "quota" or "too many requests" in any letter case
\* with the overloaded response, and every other one with the unknown failure.
C7_CaseInsensitiveClassification ==
    \A i \in Requests :
        ProviderFailedWith(i) =>
            LET msg == toLowerCase(requests[i].error.v)
            IN  IF includes(msg, PhraseApiKeyLower) \/ includes(msg, PhraseUnauthorized)
                THEN Response(i) \in ConfigurationFailure
                ELSE IF includes(msg, PhraseQuota) \/ includes(msg, PhraseTooManyRequests)
                THEN Response(i) \in Overloaded
                ELSE Response(i) \in Unknown

\* C8: when the key of the selected provider is not set, the handler answers
\* with the configuration failure and issues no provider call.
C8_MissingKeyIsConfigurationFailure ==
    \A i \in Requests :
        requests[i].stage = "credential" =>
            /\ Response(i) \in ConfigurationFailure
            /\ requests[i].providerCalls = 0

\* C9: when the payload parses and no item survives validation, the handler
\* answers with the parsing failure, not the unknown failure, and stores nothing.
C9_NoSurvivorIsParsingFailure ==
    \A i \in Requests :
        (Done(i) /\ requests[i].stage = "validate") =>
            /\ Response(i) \in ParsingFailure
            /\ Response(i) \notin Unknown
            /\ Stored(i) = {}

\* C10: when the extracted text is the empty string, the handler answers with
\* the parsing failure, validates no item and stores nothing.
C10_EmptyTextIsParsingFailure ==
    \A i \in Requests :
        (requests[i].extracted /\ requests[i].rawText = Str(<<>>)) =>
            /\ Done(i)
            /\ requests[i].stage = "parse"
            /\ Response(i) \in ParsingFailure
            /\ requests[i].validated = <<>>
            /\ requests[i].createCalls = 0
            /\ Stored(i) = {}

C10_Witness ==
    \E i \in Requests :
        /\ requests[i].handler = "generateFlashcards"
        /\ requests[i].currentProvider = "GROQ"
        /\ requests[i].extracted
        /\ requests[i].rawText = Str(<<>>)
        /\ Response(i).status = 500

IsQuiz(req) == req.handler \in {"generateQuiz", "generateQuizGroq"}

\* An integer of 0..3.
IsOptionIndex(x) == x.t = "num" /\ x.v \in 0..3

C12_SurvivorsHaveNonEmptyFields ==
    \A i \in Requests : \A n \in 1..Len(requests[i].validated) :
        LET item == requests[i].validated[n]
        IN  IF IsFlashcards(requests[i])
            THEN trim(item.front) # <<>> /\ trim(item.back) # <<>>
            ELSE /\ trim(item.questionText) # <<>>
                 /\ Len(item.options) = 4
                 /\ \A k \in 1..Len(item.options) : trim(item.options[k]) # <<>>

\* The collection handed to the validation is the one question q.
ProbedQuestion(q) ==
    /\ probe.fn = "validatedQuestions"
    /\ probe.applied
    /\ probe.arg.v = <<q>>

\* A question with a text and four options, whatever its answer.
WellFormedButAnswer(q) ==
    /\ q.t = "obj"
    /\ q.v.questionText.t = "str" /\ q.v.questionText.v # <<>>
    /\ q.v.options.t = "arr" /\ Len(q.v.options.v) = 4

\* A string of digits.
NumericLooking(x) == x.t = "str" /\ x.v # <<>> /\ \A k \in 1..Len(x.v) : IsDigit(x.v[k])

\* C13: a correctAnswer that is a numeric-looking string is parsed to an integer
\* and used as the index ("2" gives 2), whatever the option texts are.
C13_NumericStringIsIndex ==
    \A q \in ProbeQuestions :
        (/\ ProbedQuestion(q)
         /\ WellFormedButAnswer(q)
         /\ NumericLooking(q.v.correctAnswer)
         /\ DigitsValue(q.v.correctAnswer.v, 0) \in 0..3)
            => /\ Len(probe.out.items) = 1
               /\ probe.out.items[1].correctAnswer = Num(DigitsValue(q.v.correctAnswer.v, 0))

\* The positions (from 0) of the options exactly equal to the answer text.
ExactPositions(q) ==
    {k \in 0..3 : q.v.options.v[k + 1] = q.v.correctAnswer}

\* The positions (from 0) of the options equal to the answer text after trimming
\* both (an option that is no string is read by its string form).
TrimmedPositions(q) ==
    {k \in 0..3 : trim(String(q.v.options.v[k + 1])) = trim(q.v.correctAnswer.v)}

\* C14: a correctAnswer that is answer text is normalized to the position of the
\* first option exactly equal to it or, if there is none, of the first option
\* equal to it after trimming both.
C14_AnswerTextIsPositionOfOption ==
    \A q \in ProbeQuestions :
        (/\ ProbedQuestion(q)
         /\ WellFormedButAnswer(q)
         /\ q.v.correctAnswer.t = "str"
         /\ ExactPositions(q) \cup TrimmedPositions(q) # {})
            => /\ Len(probe.out.items) = 1
               /\ probe.out.items[1].correctAnswer =
                     IF ExactPositions(q) # {} THEN Num(SetMin(ExactPositions(q)))
                     ELSE Num(SetMin(TrimmedPositions(q)))

C14_Witness ==
    /\ ProbedQuestion(Question(Str(<<"Q">>),
                               Arr(<<Str(<<" ">> \o Paris.v), Paris,
                                     Str(Berlin.v \o <<" ">>), Str(<<"2">>)>>),
                               Paris))
    /\ probe.out.items[1].correctAnswer = Num(1)

\* C15: a defect of one item never fails the whole validation: the invalid item
\* is dropped and the valid items around it are kept in their order, for
\* questions and for cards.
C15_DefectiveItemIsDropped ==
    (/\ probe.applied
     /\ probe.fn \in {"validatedQuestions", "validatedCards"}
     /\ Len(probe.arg.v) = 3)
        => /\ ~probe.out.threw
           /\ Len(probe.out.items) \in {2, 3}
           /\ IF probe.fn = "validatedCards"
              THEN /\ probe.out.items[1].front = <<"F", "1">>
                   /\ probe.out.items[Len(probe.out.items)].front = <<"7">>
              ELSE /\ probe.out.items[1].questionText = <<"Q", "2">>
                   /\ probe.out.items[Len(probe.out.items)].questionText = <<"Q", "1">>

\* The items of a sub-collection of a study set.
StudyItems(body, name) ==
    IF body.t = "obj" /\ name \in DOMAIN body.v /\ body.v[name].t = "arr"
    THEN body.v[name].v ELSE <<>>

NonEmptyText(x) == x.t = "str" /\ trim(x.v) # <<>>

\* The per-item rule of a flashcard.
ValidCardItem(x) ==
    /\ x.t = "obj"
    /\ NonEmptyText(x.v.front)
    /\ NonEmptyText(x.v.back)

\* The per-item rule of a quiz question.
ValidQuestionItem(x) ==
    /\ x.t = "obj"
    /\ NonEmptyText(x.v.questionText)
    /\ x.v.options.t = "arr"
    /\ Len(x.v.options.v) = 4
    /\ \A k \in 1..Len(x.v.options.v) : NonEmptyText(x.v.options.v[k])
    /\ IsOptionIndex(x.v.correctAnswer)

\* C16: a returned study set holds no flashcard and no quiz item that violates
\* the per-item rules: the invalid items of each sub-collection are dropped.
C16_StudySetItemsAreValid ==
    \A i \in 1..Len(requests) :
        (/\ requests[i].handler = "generateStudySet"
         /\ requests[i].pc = "done"
         /\ requests[i].responses = <<StudySetReturned>>)
            => LET cards == StudyItems(requests[i].body, "flashcards")
                   quiz == StudyItems(requests[i].body, "quiz")
               IN  /\ \A n \in 1..Len(cards) : ValidCardItem(cards[n])
                   /\ \A n \in 1..Len(quiz) : ValidQuestionItem(quiz[n])

\* The provider the handler of a request selects.
SelectedProvider(req) ==
    CASE req.handler = "generateQuiz" -> "GEMINI"
      [] req.handler = "generateQuizGroq" -> "GROQ"
      [] OTHER -> IF req.counter % 2 = 0 THEN "GROQ" ELSE "GEMINI"

\* C17: a request issues at most one provider call: when the call of the selected
\* provider fails the request ends with its failure response, the call is not
\* repeated and the other provider is not called.
C17_AtMostOneProviderCall ==
    \A i \in Requests :
        /\ requests[i].providerCalls <= 1
        /\ requests[i].providerCalls = 1 =>
              requests[i].currentProvider = SelectedProvider(requests[i])
        /\ (requests[i].caught /\ requests[i].stage = "provider") =>
              /\ Done(i)
              /\ requests[i].providerCalls = 1
              /\ Response(i).status \in {429, 500}

C17_Witness ==
    \E i \in Requests :
        /\ IsFlashcards(requests[i])
        /\ requests[i].currentProvider = "GROQ"
        /\ requests[i].caught
        /\ requests[i].stage = "provider"
        /\ requests[i].providerCalls = 1
        /\ Done(i)

\* C18: every request eventually completes with a response, also when the
\* provider never replies: the pending provider call is cut off.
C18_EveryCallCompletes ==
    (requests # <<>>) ~> (requests # <<>> /\ requests[1].pc = "done")

\* C19: under any interleaving of flashcard requests no update of the rotation
\* counter is lost: the counter never decreases, after k requests have selected
\* it is k, and the k-th request holds the value k of its own increment and has
\* called the provider that value selects.
C19_NoLostCounterUpdate ==
    /\ [](/\ requestCounter = Len(Selections)
          /\ \A k \in 1..MaxRequests :
                k <= Len(Selections) =>
                    /\ Selections[k].counter = k
                    /\ Selections[k].currentProvider = SelectedProvider(Selections[k]))
    /\ [][requestCounter' >= requestCounter]_vars

C19_Witness ==
    /\ Len(Selections) >= 2
    /\ Selections[1].pc = "awaitProvider"
    /\ Selections[2].pc = "awaitProvider"
    /\ Selections[1].counter = 1
    /\ Selections[2].counter = 2
    /\ requestCounter = 2

\* C20: valid JSON text between a leading fence (tagged json or not) and a
\* trailing fence parses to the same payload as the bare text, in the quiz
\* parser and in parseFlashcardJSON.
C20_FencedParsesAsBare ==
    (probe.applied /\ probe.fn \in {"parseQuizJSON", "parseFlashcardJSON"}) =>
        /\ probe.out.json.ok
        /\ probe.out.text = probe.out.json

C20_Witness ==
    /\ probe.applied
    /\ probe.fn = "parseFlashcardJSON"
    /\ probe.arg.json = Str(<<"n", "u", "l", "l">>)
    /\ probe.arg.text = Str(Fenced(<<"n", "u", "l", "l">>))
    /\ probe.out.text = Parsed(Null)

\* A request answered 400 "Topic is required".
RejectedForTopic(req) ==
    /\ req.pc = "done"
    /\ req.stage = "request"
    /\ req.responses = <<TopicRequired>>

\* C21: request validation comes before provider selection: the step in which
\* generateFlashcards rejects a request for an empty topic leaves the rotation
\* counter unchanged, and the rejected request has selected no provider.
C21_RejectedTopicLeavesCounter ==
    [][(/\ Len(requests') = Len(requests) + 1
        /\ IsFlashcards(requests'[Len(requests')])
        /\ RejectedForTopic(requests'[Len(requests')]))
          => /\ requestCounter' = requestCounter
             /\ requests'[Len(requests')].currentProvider = ""]_vars

\* C22: every invocation of generateQuiz or generateFlashcards that has ended
\* has sent exactly one response, with status 201, 400, 429 or 500, an
\* invocation suspended at an await has sent none, and no error has left the
\* handler to be answered by errorHandler.
C22_OneClassifiedResponse ==
    \A i \in Requests :
        /\ Len(requests[i].responses) = (IF Done(i) THEN 1 ELSE 0)
        /\ Done(i) => Response(i).status \in {201, 400, 429, 500}
        /\ ~requests[i].escaped

\* C23: in every extractTextFromResult variant, whenever the extraction fails
\* internally (its try block throws) the text returned is the empty string, not
\* a serialization of the result.
C23_FailedExtractionIsEmpty ==
    (/\ probe.applied
     /\ extractionThrows(probe.fn, probe.arg.provider, probe.arg.result))
        => probe.out = Str(<<>>)

\* The positions of a character in a text.
Positions(s, c) == {k \in 1..Len(s) : s[k] = c}

\* What the claim C24 says the parser gives for a cleaned text.
OuterBracesParse(cleaned) ==
    LET open == Positions(cleaned, "{")
        close == Positions(cleaned, "}")
    IN  IF JSONparse(cleaned).ok THEN JSONparse(cleaned)
        ELSE IF open # {} /\ close # {} /\ SetMax(close) > SetMin(open)
        THEN JSONparse(SubSeq(cleaned, SetMin(open), SetMax(close)))
        ELSE ParseError

\* C24: when the direct parse of the cleaned text fails, the parser parses
\* exactly the text from the first "{" through the last "}", if both exist and
\* the last comes after the first, and gives that payload; without such a pair,
\* or when that text does not parse, it fails with a parse error and tries
\* nothing else.
C24_FallbackParsesOuterBraces ==
    (probe.applied /\ probe.fn = "parseWithBraceFallback") =>
        /\ probe.out.quiz = OuterBracesParse(cleanQuizText(probe.arg))
        /\ probe.out.flashcard = OuterBracesParse(cleanFlashcardText(probe.arg))

C24_Witness ==
    /\ probe.applied
    /\ probe.fn = "parseWithBraceFallback"
    /\ probe.arg = Str(InProse(Braces("qMixed")))
    /\ ~JSONparse(cleanQuizText(probe.arg)).ok
    /\ probe.out.quiz = Parsed(Body("qMixed"))
    /\ probe.out.flashcard = Parsed(Body("qMixed"))

\* The requests whose handler has fetched the client of that cache: the accessor
\* was called and did not throw.
ClientUsers(cache) ==
    {i \in Requests :
        /\ requests[i].providerCalls = 1
        /\ CASE cache = "groq" -> requests[i].handler = "generateQuizGroq"
             [] cache = "groqClient" ->
                    IsFlashcards(requests[i]) /\ requests[i].currentProvider = "GROQ"
             [] OTHER ->
                    IsFlashcards(requests[i]) /\ requests[i].currentProvider = "GEMINI"}

Cached(cache) ==
    CASE cache = "groq" -> groq
      [] cache = "groqClient" -> groqClient
      [] OTHER -> geminiModel

PayloadItems(req) ==
    IF IsFlashcards(req) THEN Field(parseFlashcardJSON(req.rawText).val, "cards").v
    ELSE Field(parseQuizJSON(req.rawText).val, "questions").v

\* The item of a payload passes the validation of the request's handler.
Survives(req, x) == IF IsFlashcards(req) THEN cardFilter(x) ELSE validateQuestion(x).ok

\* The positions of the survivors in the payload of a request.
SurvivorPositions(req) ==
    {k \in 1..Len(PayloadItems(req)) : Survives(req, PayloadItems(req)[k])}

\* The position in the payload of the n-th survivor.
SurvivorAt(req, n) ==
    CHOOSE k \in SurvivorPositions(req) :
        Cardinality({j \in SurvivorPositions(req) : j <= k}) = n

\* A stored item is the cleaned form of that item of the payload.
StoredFrom(req, item, x) ==
    IF IsFlashcards(req)
    THEN /\ item.front = trim(String(Field(x, "front")))
         /\ item.back = trim(String(Field(x, "back")))
    ELSE /\ item.questionText = validateQuestion(x).item.questionText
         /\ item.options = validateQuestion(x).item.options
         /\ item.correctAnswer = validateQuestion(x).item.correctAnswer

ItemNumber(req, item) ==
    IF IsFlashcards(req) THEN item.cardNumber ELSE item.questionNumber

\* C26: the items stored by one successful generation are numbered 1..n without
\* gap or duplicate, in the order in which they survived the validation: the
\* item numbered n is the n-th survivor of the payload, also when invalid items
\* were dropped in between.
C26_StoredItemsNumberedInOrder ==
    \A k \in 1..Len(db) :
        LET req == requests[db[k].request]
            items == db[k].items
        IN  /\ Len(items) = Cardinality(SurvivorPositions(req))
            /\ \A n \in 1..Len(items) :
                  /\ ItemNumber(req, items[n]) = n
                  /\ StoredFrom(req, items[n], PayloadItems(req)[SurvivorAt(req, n)])

C26_Witness ==
    \E k \in 1..Len(db) :
        /\ IsFlashcards(requests[db[k].request])
        /\ SurvivorPositions(requests[db[k].request]) = {1, 3}
        /\ Len(db[k].items) = 2
        /\ db[k].items[2].cardNumber = 2
        /\ db[k].items[2].front = trim(String(Field(NumberCard, "front")))

\* C27: a challenge leaves the pending status at most once: once its status is
\* accepted, rejected, cancelled or expired no request changes it again, under
\* any interleaving of the requests of the challenger and of the opponent.
C27_StatusLeavesPendingOnce ==
    [][\A id \in 1..Len(challenges) :
          challenges[id].status # "pending" =>
              challenges'[id].status = challenges[id].status]_vars

\* The column of a challenge that must hold the caller of a handler.
Role(handler) == IF handler = "cancelChallenge" THEN "challengerId" ELSE "opponentId"

\* The statuses a handler moves a challenge to.
Moves(handler) ==
    CASE handler = "acceptChallenge" -> {"accepted", "expired"}
      [] handler = "rejectChallenge" -> {"rejected"}
      [] OTHER -> {"cancelled"}

\* C28: only the opponent of a challenge moves it to accepted or rejected and
\* only its challenger moves it to cancelled: findFirst gives a row to the
\* user of that role alone, a call without a row is answered 404 and updates
\* nothing, and every change of a status is the update of a call of that user.
C28_OnlyPartyMovesChallenge ==
    /\ [](\A i \in 1..Len(challengeCalls) :
            LET call == challengeCalls[i]
            IN  /\ call.found # NoRow =>
                      challenges[call.found][Role(call.handler)] = call.userId
                /\ (call.found = NoRow /\ call.pc # "awaitFind") =>
                      /\ call.pc = "done"
                      /\ call.status = 404
                      /\ call.data.status = "")
    /\ [][\A id \in 1..Len(challenges) :
            challenges'[id].status # challenges[id].status =>
                \E i \in 1..Len(challengeCalls) :
                    /\ challengeCalls[i].pc = "awaitUpdate"
                    /\ challengeCalls'[i].pc = "done"
                    /\ challengeCalls[i].challengeId = id
                    /\ challengeCalls[i].userId =
                           challenges[id][Role(challengeCalls[i].handler)]
                    /\ challenges'[id].status \in Moves(challengeCalls[i].handler)]_vars

C28_Witness ==
    /\ Len(challenges) = 1
    /\ challenges[1].status = "pending"
    /\ Len(challengeCalls) = 2
    /\ challengeCalls[1].userId = challenges[1].opponentId
    /\ challengeCalls[1].found = 1
    /\ challengeCalls[2].userId = 3
    /\ challengeCalls[2].handler = "acceptChallenge"
    /\ challengeCalls[2].pc = "done"
    /\ challengeCalls[2].status = 404

Verifies(id) == id \in JwtIds /\ JwtClaims(id).signed /\ ~JwtClaims(id).expired

\* C30: a handler behind authenticateToken runs only for a request whose token
\* verifies: a request without a token gets 401 and one with an invalid or
\* expired token 403, in both cases next is not called and req.userId is not
\* set; when next is called req.userId is the userId of the verified token.
C30_HandlerRunsOnlyWithVerifiedToken ==
    (probe.applied /\ probe.fn = "authenticateToken") =>
        /\ probe.arg.token = "none" =>
              /\ probe.out.status = 401
              /\ ~probe.out.next
              /\ probe.out.userId = Undef
        /\ (probe.arg.token # "none" /\ ~Verifies(probe.arg.token)) =>
              /\ probe.out.status = 403
              /\ ~probe.out.next
              /\ probe.out.userId = Undef
        /\ probe.out.next =>
              /\ Verifies(probe.arg.token)
              /\ probe.out.userId = JwtClaims(probe.arg.token).userId
              /\ probe.out.status = 0

C30_Witness ==
    /\ probe.applied
    /\ probe.fn = "authenticateToken"
    /\ probe.arg.token = "jwtUser2"
    /\ probe.out.next
    /\ probe.out.userId = Num(2)

====
